---- MODULE Spec2Model ----
(***************************************************************************)
(* snapd-seed-glue: the seed-reconciliation run of main(), as a state       *)
(* machine.  One run = load the manifest, resolve the requested snaps and   *)
(* their dependencies against the store, download what is missing, purge,   *)
(* rewrite seed.yaml, validate, and remove stray files.                     *)
(*                                                                         *)
(* The environment of a run (command-line arguments, the store's answers,   *)
(* the content of the seed directory) is chosen in Init and then fixed; the *)
(* outcomes of network and subprocess calls are chosen when they happen.    *)
(***************************************************************************)
EXTENDS Integers, Sequences, FiniteSets, TLC

(***************************************************************************)
(* Bounds of the model.                                                     *)
(***************************************************************************)
\* Greatest revision a blob of the initial seed directory may carry.
MaxDiskRev == 3
\* Number of ways the initial environment may differ from the plain one
\* (see Deviations).
MaxDeviations == 1
\* Number of failing or misbehaving external calls per behaviour.
MaxFaults == 1
\* Number of consecutive runs of the tool on the same seed directory.
MaxRuns == 2
\* Number of headers by which a fetched assertion may differ from the usual ones.
MaxOddHeaders == 2
\* Length of the body of an assertion that has one.
BodyLen == 7
\* Greatest limit given to the delta download loop.
MaxRetriesLimit == 10
\* Number of files in a directory whose file names are spelled out.
MaxFiles == 2

(***************************************************************************)
(* Program constants.                                                       *)
(***************************************************************************)
\* attempts of downloadSnap and of downloadSnapDeltaWithRetries
MaxAttempts == 5

Names == {"snapd", "bare", "hello", "core"}

\* requiredSnaps = map[string]bool{"snapd": true, "bare": true}
EssentialSnaps == {"snapd", "bare"}

\* defaultChannel := "latest/stable/ubuntu-" + versionID
DefaultChannel == "latest/stable/ubuntu-25.04"
FallbackChannel == "latest/stable"
EdgeChannel == "latest/edge"
Channels == {DefaultChannel, FallbackChannel, EdgeChannel}

\* The revision the store serves in this model (a store input).
StoreRev == 2

\* The sizes the store announces, for a snap and for a delta (store inputs).
SnapSize == 4
DeltaSize == 2

VARIABLES
    args,            \* flag.Args(): set of entries, each <<name>> or <<name, "=", channel>>
    store,           \* the snap store: name -> what it answers
    snapFiles,       \* <seed>/snaps/*.snap : set of [name, rev, good]
    junkFiles,       \* <seed>/snaps/*.delta, *.partial : set of [name, from, to, ext]
    assertFiles,     \* <seed>/assertions/*.assert : set of [name, rev, id, srev]
    topAssertions,   \* <seed>/assertions/{model,account-key,account}
    manifestExists,  \* seed.yaml exists
    manifest,        \* seed.yaml: sequence of [name, channel, file]
    currentSnaps,    \* var currentSnaps []*store.CurrentSnap
    requiredSnaps,   \* var requiredSnaps map[string]bool (its key set)
    processedSnaps,  \* var processedSnaps map[string]bool (its key set)
    rootsLeft,       \* entries of requiredSnaps the range loop has still to visit
    stack,           \* active calls of collectSnapDependencies, innermost last
    workList,        \* snapsToProcess
    dl,              \* position inside processSnap for the head of workList
    pc,              \* position in main()
    faults,          \* external calls that failed or misbehaved so far
    run,             \* number of the current run
    progress,        \* progress.go: the tracker and the package-level variables
    stdout,          \* the progress lines printed: sequence of [percentage, status]
    totalSnaps,      \* totalSnaps := len(snapsToProcess) in main()
    hist,            \* observations kept for the properties (never read by the program)
    assertions,      \* downloadAssertions: what the four fetches returned
    assertionsFile,  \* downloadAssertions: what has been written to <name>_<rev>.assert
    wstep,           \* downloadAssertions: calls of writeAssertion made at step 6
    assertErr,       \* downloadAssertions: the error it returns, "" while it has none
    loop,            \* a download loop with retries: its local variables and its result
    dir,             \* the seed directory with its file names spelled out
    fcall            \* a function working on file names: its arguments, locals and result

vars == << args, store, snapFiles, junkFiles, assertFiles, topAssertions,
           manifestExists, manifest, currentSnaps, requiredSnaps, processedSnaps,
           rootsLeft, stack, workList, dl, pc, faults, run, progress, stdout,
           totalSnaps, hist, assertions, assertionsFile, wstep, assertErr, loop, dir, fcall >>

\* The variables of the run of main(), and those of the assertion writer, which
\* is examined on its own (NextWriter).
mainVars == << args, store, snapFiles, junkFiles, assertFiles, topAssertions,
               manifestExists, manifest, currentSnaps, requiredSnaps, processedSnaps,
               rootsLeft, stack, workList, dl, pc, faults, run, progress, stdout,
               totalSnaps, hist >>

writerVars == << assertions, assertionsFile, wstep, assertErr >>

\* The variable of the download loops, which are examined on their own
\* (NextRetry).
loopVars == << loop >>

\* The variables of the functions that read and write file names, which are
\* examined on their own (NextNames).
nameVars == << dir, fcall >>

(***************************************************************************)
(* Small helpers                                                            *)
(***************************************************************************)
Range(s) == { s[i] : i \in 1..Len(s) }

Max(S) == CHOOSE x \in S : \A y \in S : y <= x

\* All orderings of a finite set, as sequences without repetition.
Perms(S) == { p \in [1..Cardinality(S) -> S] : \A i, j \in 1..Cardinality(S) : p[i] = p[j] => i = j }

RemoveAt(s, i) == SubSeq(s, 1, i - 1) \o SubSeq(s, i + 1, Len(s))

\* Keep the elements of s that satisfy Test, in order.
RECURSIVE FilterSeq(_, _)
FilterSeq(s, keep) ==
    IF s = << >> THEN << >>
    ELSE (IF Head(s).name \in keep THEN << Head(s) >> ELSE << >>) \o FilterSeq(Tail(s), keep)

(***************************************************************************)
(* Command-line entries: "name" or "name=channel"                           *)
(***************************************************************************)
\* requiredSnaps[name] = true uses the bare name as key.
Key(name) == << name >>

\* parts := strings.SplitN(snapEntry, "=", 2); snapName := parts[0]
EntryName(e) == e[1]

\* channel := defaultChannel; if len(parts) == 2 { channel = parts[1] }
EntryChannel(e) == IF Len(e) >= 3 /\ e[2] = "=" THEN e[3] ELSE DefaultChannel

(***************************************************************************)
(* The store (external): what SnapAction answers.                           *)
(***************************************************************************)
ErrNotFound == "snap not found"
ErrNoUpdate == "snap has no updates available"
ErrChannelMiss == "no snap revision available as specified"
ErrUnavailable == "store unavailable"
ErrInvalid == "invalid snap information"

NoSnap == [name |-> "", id |-> "", rev |-> 0]

Failure(e) == [err |-> e, id |-> "", rev |-> 0, size |-> 0, base |-> "", prereqs |-> {},
               deltas |-> << >>]

\* The deltas a store entry offers for a refresh from revision `from`: none, or
\* a list whose first delta starts from a revision the client does not hold.
DeltasOffered(e, from) ==
    IF e.deltas = 0 THEN << >>
    ELSE << [from |-> from - 1, to |-> e.rev, size |-> e.deltaSize],
            [from |-> from, to |-> e.rev, size |-> e.deltaSize] >>

\* storeClient.SnapAction(ctx, includeSnap, actions, ...) for one action.
SnapAction(op, name, cur, channel) ==
    LET e == store[name] IN
    IF ~e.found THEN Failure(ErrNotFound)
    ELSE IF channel \notin e.channels THEN Failure(ErrChannelMiss)
    ELSE IF op = "refresh" /\ cur.rev = e.rev THEN Failure(ErrNoUpdate)
    ELSE [err |-> "", id |-> e.id, rev |-> e.rev, size |-> e.size, base |-> e.base,
          prereqs |-> e.prereqs,
          deltas |-> IF op = "refresh" THEN DeltasOffered(e, cur.rev) ELSE << >>]

\* fetchOrRefreshSnapInfo: refresh when a current snap is given, install otherwise;
\* the error text of the store survives the wrapping, an Info without snap-id or
\* revision is an error.
fetchOrRefreshSnapInfo(snapName, currentSnap, channel) ==
    LET op == IF currentSnap # NoSnap THEN "refresh" ELSE "install"
        r == SnapAction(op, snapName, currentSnap, channel)
    IN  IF r.err # "" THEN r
        ELSE IF r.id = "" \/ r.rev = 0 THEN Failure(ErrInvalid)
        ELSE r

(***************************************************************************)
(* Local inventory                                                          *)
(***************************************************************************)
\* fileExists(<snapsDir>/<name>_<rev>.snap)
snapExists(name, rev) == \E f \in snapFiles : f.name = name /\ f.rev = rev

assertExists(name, rev) == \E a \in assertFiles : a.name = name /\ a.rev = rev

\* parseSnapInfo: the snap-id and snap-revision headers of an assertion file;
\* both empty when the file cannot be opened.
parseSnapInfo(name, rev) ==
    IF assertExists(name, rev)
    THEN LET a == CHOOSE a \in assertFiles : a.name = name /\ a.rev = rev
         IN  [name |-> name, id |-> a.id, rev |-> a.srev]
    ELSE [name |-> name, id |-> "", rev |-> 0]

\* findPreviousSnap: the blob of that name with the greatest revision above 0,
\* the snap-id from its sibling assertion, the revision from the file name.
findPreviousSnap(snapName) ==
    LET revs == { f.rev : f \in { g \in snapFiles : g.name = snapName /\ g.rev > 0 } } IN
    IF revs = {} THEN [found |-> FALSE, snap |-> NoSnap]
    ELSE [found |-> TRUE,
          snap |-> [name |-> snapName, id |-> parseSnapInfo(snapName, Max(revs)).id, rev |-> Max(revs)]]

\* getCurrentSnapInfo: the first file matching <name>_*.assert (Glob sorts by
\* name; revisions are single digits here, so that is the least revision).
getCurrentSnapInfo(snapName) ==
    LET revs == { a.rev : a \in { b \in assertFiles : b.name = snapName /\ b.rev # 0 } } IN
    IF revs = {} THEN NoSnap
    ELSE LET cur == parseSnapInfo(snapName, CHOOSE r \in revs : \A q \in revs : r <= q)
         IN  IF cur.id = "" \/ cur.rev = 0 THEN NoSnap ELSE cur

\* loadExistingSnaps: the names listed in seed.yaml, as a map's key set.
loadExistingSnaps == { manifest[i].name : i \in 1..Len(manifest) }

(***************************************************************************)
(* currentSnaps                                                             *)
(***************************************************************************)
\* isSnapInCurrentSnaps: the revision of the first entry of that name, or 0.
isSnapInCurrentSnaps(cs, snapName) ==
    LET idx == { i \in 1..Len(cs) : cs[i].name = snapName } IN
    IF idx = {} THEN [in |-> FALSE, rev |-> 0]
    ELSE [in |-> TRUE, rev |-> cs[CHOOSE i \in idx : \A j \in idx : i <= j].rev]

\* removeSnapFromCurrentSnaps: removes the first entry whose Revision equals
\* `revision`; the name is not compared.
removeSnapFromCurrentSnaps(cs, snapName, revision) ==
    LET idx == { i \in 1..Len(cs) : cs[i].rev = revision } IN
    IF idx = {} THEN cs
    ELSE RemoveAt(cs, CHOOSE i \in idx : \A j \in idx : i <= j)

(***************************************************************************)
(* collectSnapDependencies, the part before the recursion: the store calls  *)
(* with their recovery rules.  `failing` is the number of the call, counted *)
(* from 1, that fails for a reason other than the three recognised ones; 0  *)
(* when no call does.                                                       *)
(***************************************************************************)
Query(op, ch) == [op |-> op, channel |-> ch]

\* A snap is resolved with at most this many store calls.
MaxStoreCalls == 3

\* Store calls that retry on the fallback channel after any error of the first
\* install.  (Variant; the program is StoreCalls.)
StoreCallsRetryingAnyError(snapName, channel, failing) ==
    LET install(k, ch) == IF failing = k THEN Failure(ErrUnavailable)
                          ELSE fetchOrRefreshSnapInfo(snapName, NoSnap, ch)
    IN
    IF install(1, channel).err = ""
    THEN [res |-> install(1, channel), queries |-> << Query("install", channel) >>]
    ELSE [res |-> install(2, FallbackChannel),
          queries |-> << Query("install", channel), Query("install", FallbackChannel) >>]

\* Store calls that give up when a refresh is answered `snap has no updates
\* available`.  (Variant; the program is StoreCalls.)
StoreCallsFailingOnNoUpdate(snapName, channel, failing) ==
    LET old == findPreviousSnap(snapName).snap
        ask(k, cur, ch) == IF failing = k THEN Failure(ErrUnavailable)
                           ELSE fetchOrRefreshSnapInfo(snapName, cur, ch)
        op == IF old = NoSnap \/ old.id = "" \/ old.rev = 0 THEN "install" ELSE "refresh"
        cur == IF op = "install" THEN NoSnap ELSE old
    IN
    IF ask(1, cur, channel).err = ErrChannelMiss
    THEN [res |-> ask(2, cur, FallbackChannel),
          queries |-> << Query(op, channel), Query(op, FallbackChannel) >>]
    ELSE [res |-> ask(1, cur, channel), queries |-> << Query(op, channel) >>]

\* Store calls that answer a channel miss of a refresh with an install on the
\* fallback channel.  (Variant; the program is StoreCalls.)
StoreCallsInstallingOnFallback(snapName, channel, failing) ==
    LET old == findPreviousSnap(snapName).snap
        ask(k, cur, ch) == IF failing = k THEN Failure(ErrUnavailable)
                           ELSE fetchOrRefreshSnapInfo(snapName, cur, ch)
        op == IF old = NoSnap \/ old.id = "" \/ old.rev = 0 THEN "install" ELSE "refresh"
        cur == IF op = "install" THEN NoSnap ELSE old
    IN
    IF ask(1, cur, channel).err = ErrChannelMiss
    THEN [res |-> ask(2, NoSnap, FallbackChannel),
          queries |-> << Query(op, channel), Query("install", FallbackChannel) >>]
    ELSE IF ask(1, cur, channel).err = ErrNoUpdate
    THEN [res |-> ask(2, NoSnap, channel),
          queries |-> << Query(op, channel), Query("install", channel) >>]
    ELSE [res |-> ask(1, cur, channel), queries |-> << Query(op, channel) >>]

StoreCalls(snapName, channel, failing) ==
    LET old == findPreviousSnap(snapName).snap
        install(k, ch) == IF failing = k THEN Failure(ErrUnavailable)
                          ELSE fetchOrRefreshSnapInfo(snapName, NoSnap, ch)
        refresh(k, ch) == IF failing = k THEN Failure(ErrUnavailable)
                          ELSE fetchOrRefreshSnapInfo(snapName, old, ch)
    IN
    IF old = NoSnap \/ old.id = "" \/ old.rev = 0
    THEN IF install(1, channel).err = ErrChannelMiss
         THEN [res |-> install(2, FallbackChannel),
               queries |-> << Query("install", channel), Query("install", FallbackChannel) >>]
         ELSE [res |-> install(1, channel), queries |-> << Query("install", channel) >>]
    ELSE IF refresh(1, channel).err = ErrNoUpdate
         THEN [res |-> install(2, channel),
               queries |-> << Query("refresh", channel), Query("install", channel) >>]
         ELSE IF refresh(1, channel).err = ErrChannelMiss
              THEN IF refresh(2, FallbackChannel).err = ErrNoUpdate
                   THEN [res |-> install(3, FallbackChannel),
                         queries |-> << Query("refresh", channel), Query("refresh", FallbackChannel),
                                        Query("install", FallbackChannel) >>]
                   ELSE [res |-> refresh(2, FallbackChannel),
                         queries |-> << Query("refresh", channel), Query("refresh", FallbackChannel) >>]
         ELSE [res |-> refresh(1, channel), queries |-> << Query("refresh", channel) >>]

\* The calls a fault can hit: those made when none fails.
Faultable(snapName, channel) == 0..Len(StoreCalls(snapName, channel, 0).queries)

\* needsUpdate := (oldSnapPath == "" || oldSnap.Revision.N < info.Revision.N)
needsUpdate(prev, infoRev) == ~prev.found \/ prev.snap.rev < infoRev

\* The entry of currentSnaps for a resolved snap replaces the one found by name.
recordCurrentSnap(cs, newSnap) ==
    LET known == isSnapInCurrentSnaps(cs, newSnap.name) IN
    Append(IF known.in THEN removeSnapFromCurrentSnaps(cs, newSnap.name, known.rev) ELSE cs, newSnap)

\* A collectSnapDependencies whose callers ignore its error return: the run
\* goes on after a failed store call.  (Variant; the program is Collect.)
CollectIgnoringErrors(snapName, channel, stk, failing) ==
    LET prev == findPreviousSnap(snapName)
        calls == StoreCalls(snapName, channel, failing)
        info == calls.res
        newSnap == [name |-> snapName, id |-> info.id, rev |-> info.rev]
    IN
    IF info.err # ""
    THEN /\ pc' = pc
         /\ hist' = [hist EXCEPT !.queries[snapName] = @ \o calls.queries,
                                 !.failedAt = "resolve", !.error = info.err]
         /\ stack' = stk
         /\ processedSnaps' = processedSnaps \cup {snapName}
         /\ UNCHANGED << currentSnaps, requiredSnaps, workList >>
    ELSE /\ pc' = pc
         /\ hist' = [hist EXCEPT !.queries[snapName] = @ \o calls.queries,
                                 !.entered[snapName] = @ + 1,
                                 !.resolved[snapName] = info.rev,
                                 !.emitted = IF needsUpdate(prev, info.rev)
                                             THEN @ \cup {snapName} ELSE @]
         /\ currentSnaps' = recordCurrentSnap(currentSnaps, newSnap)
         /\ processedSnaps' = processedSnaps \cup {snapName}
         /\ IF needsUpdate(prev, info.rev)
            THEN /\ workList' = Append(workList, [name |-> snapName, channel |-> channel,
                                                   id |-> info.id, rev |-> info.rev,
                                                   size |-> info.size, deltas |-> info.deltas])
                 /\ UNCHANGED requiredSnaps
            ELSE /\ requiredSnaps' = requiredSnaps \cup {Key(snapName)}
                 /\ UNCHANGED workList
         /\ stack' = Append(stk, [name |-> snapName, channel |-> channel,
                                  prereqs |-> info.prereqs, base |-> info.base, baseLeft |-> TRUE])

\* One call of collectSnapDependencies(snapName, channel) on a snap that is not
\* in processedSnaps, up to the point where it starts visiting its prerequisites;
\* `stk` is the stack of the callers.  An error return ends the run.
Collect(snapName, channel, stk, failing) ==
    LET prev == findPreviousSnap(snapName)
        calls == StoreCalls(snapName, channel, failing)
        info == calls.res
        newSnap == [name |-> snapName, id |-> info.id, rev |-> info.rev]
    IN
    IF info.err # ""
    THEN /\ pc' = "failed"
         /\ hist' = [hist EXCEPT !.queries[snapName] = @ \o calls.queries,
                                 !.failedAt = "resolve", !.error = info.err]
         /\ stack' = stk
         /\ UNCHANGED << currentSnaps, processedSnaps, requiredSnaps, workList >>
    ELSE /\ pc' = pc
         /\ hist' = [hist EXCEPT !.queries[snapName] = @ \o calls.queries,
                                 !.entered[snapName] = @ + 1,
                                 !.resolved[snapName] = info.rev,
                                 !.emitted = IF needsUpdate(prev, info.rev)
                                             THEN @ \cup {snapName} ELSE @]
         /\ currentSnaps' = recordCurrentSnap(currentSnaps, newSnap)
         /\ processedSnaps' = processedSnaps \cup {snapName}
         /\ IF needsUpdate(prev, info.rev)
            THEN /\ workList' = Append(workList, [name |-> snapName, channel |-> channel,
                                                   id |-> info.id, rev |-> info.rev,
                                                   size |-> info.size, deltas |-> info.deltas])
                 /\ UNCHANGED requiredSnaps
            ELSE /\ requiredSnaps' = requiredSnaps \cup {Key(snapName)}
                 /\ UNCHANGED workList
         /\ stack' = Append(stk, [name |-> snapName, channel |-> channel,
                                  prereqs |-> info.prereqs, base |-> info.base, baseLeft |-> TRUE])

(***************************************************************************)
(* Progress reporting (progress.go).  Weights and step progress are whole   *)
(* numbers in the program's runs; completedWeight is kept in hundredths so  *)
(* that Finish's (remaining * weight) / 100 stays exact, and int(x) of a    *)
(* non-negative quotient is \div.  A value S threaded through the operators *)
(* below is [p: the tracker and the package-level variables, out: the lines *)
(* printed, pm: the ProgressMeter in use].                                  *)
(***************************************************************************)
\* The package-level variables before main runs.
NoProgress ==
    [totalWeight      |-> 0,
     completedWeight  |-> 0,
     steps            |-> << >>,
     currentStep      |-> 1,
     globalDownloaded |-> 0,
     totalSnapSize    |-> 0,
     lastReported     |-> 0,
     snapSizeMap      |-> [n \in Names |-> 0]]

NoMeter == [currentBytes |-> 0, isDelta |-> FALSE, snapName |-> "", totalSize |-> 0]

\* VerboseProgressReporter.Report: fmt.Printf("%d\t%s\n", percentage, status)
Report(S, percentage, status) ==
    [S EXCEPT !.out = Append(@, [percentage |-> percentage, status |-> status])]

\* calculatePercentage: int((completedWeight / totalWeight) * 100), at most 99.
calculatePercentage(p) ==
    IF p.totalWeight = 0 THEN 0
    ELSE LET percentage == p.completedWeight \div p.totalWeight
         IN  IF percentage > 99 THEN 99 ELSE percentage

\* reportProgress: the current step's status, when the percentage differs from
\* the one reported last.
reportProgress(S) ==
    LET percentage == calculatePercentage(S.p) IN
    IF percentage # S.p.lastReported
    THEN [Report(S, percentage, S.p.steps[S.p.currentStep].Status)
            EXCEPT !.p.lastReported = percentage]
    ELSE S

AddStep(p, weight, status) ==
    [p EXCEPT !.steps = Append(@, [Weight |-> weight, Progress |-> 0, Status |-> status]),
              !.totalWeight = @ + weight]

\* ProgressTracker.Start (currentStep counts from 1 here, from 0 in the program)
TrackerStart(S) ==
    IF Len(S.p.steps) > 0
    THEN reportProgress([S EXCEPT !.p.currentStep = 1, !.p.steps[1].Progress = 0])
    ELSE S

\* InitProgress
InitProgress(S) ==
    TrackerStart([S EXCEPT !.p = AddStep(AddStep(AddStep([S.p EXCEPT !.totalWeight = 0, !.steps = << >>],
                                                         10, "Initialization"),
                                                 80, "Downloading snaps"),
                                         10, "Verifying snaps")])

\* ProgressTracker.UpdateStepProgress: a negative argument stands for
\* int((globalDownloaded / totalSnapSize) * step.Weight); a value below the
\* step's progress is ignored.  Nothing is reported.
UpdateStepProgress(S, value) ==
    LET p == S.p IN
    IF p.currentStep > Len(p.steps) THEN S
    ELSE LET step == p.steps[p.currentStep]
             target == IF value < 0
                       THEN (p.globalDownloaded * step.Weight) \div p.totalSnapSize
                       ELSE value
         IN  IF value >= 0 /\ value < step.Progress THEN S
             ELSE [S EXCEPT !.p.completedWeight = @ + 100 * (target - step.Progress),
                            !.p.steps[p.currentStep].Progress = target]

\* The step after the current one becomes current, when there is one.
Advance(S) ==
    IF S.p.currentStep < Len(S.p.steps)
    THEN reportProgress([S EXCEPT !.p.currentStep = @ + 1,
                                  !.p.steps[S.p.currentStep + 1].Progress = 0])
    ELSE S

\* ProgressTracker.Finish: the current step is completed, its status line is
\* printed whatever was reported last, and the next step starts.
Finish(S, status) ==
    LET p == S.p IN
    IF Len(p.steps) = 0 \/ p.currentStep > Len(p.steps) THEN S
    ELSE LET step == p.steps[p.currentStep]
             completed == IF step.Progress < 100
                          THEN [S EXCEPT !.p.completedWeight = @ + (100 - step.Progress) * step.Weight,
                                         !.p.steps[p.currentStep].Progress = 100]
                          ELSE S
         IN  Advance(Report(completed, calculatePercentage(completed.p), status))

\* ProgressTracker.NextStep
NextStep(S) == Advance(S)

\* reportGlobalProgress: int((globalDownloaded / totalSnapSize) * 80) + 10,
\* printed when it differs from the percentage reported last.
reportGlobalProgress(S) ==
    IF S.p.totalSnapSize = 0 THEN S
    ELSE LET percentage == ((S.p.globalDownloaded * 80) \div S.p.totalSnapSize) + 10 IN
         IF percentage # S.p.lastReported
         THEN [Report(S, percentage,
                      (IF S.pm.isDelta THEN "Downloading delta for snap " ELSE "Downloading snap ")
                          \o S.pm.snapName)
                 EXCEPT !.p.lastReported = percentage]
         ELSE S

\* NewProgressMeter(snapName, snapVersion, isDelta)
NewProgressMeter(S, snapName, isDelta) ==
    [S EXCEPT !.pm = [currentBytes |-> 0, isDelta |-> isDelta, snapName |-> snapName,
                      totalSize |-> S.p.snapSizeMap[snapName]]]

\* ProgressMeter.Start(label, total)
MeterStart(S, total) == [S EXCEPT !.pm.totalSize = total]

\* ProgressMeter.Write(p), len(p) = n
MeterWrite(S, n) ==
    reportGlobalProgress([S EXCEPT !.pm.currentBytes = @ + n, !.p.globalDownloaded = @ + n])

\* ProgressMeter.Finished()
MeterFinished(S) ==
    reportGlobalProgress([S EXCEPT !.p.globalDownloaded = @ + (S.pm.totalSize - S.pm.currentBytes),
                                   !.pm.currentBytes = S.pm.totalSize])

\* What one call of storeClient.Download (external) does to the meter it is
\* given: Start with the size of the file, Write for the bytes it received,
\* and Finished or not, as the library pleases.
Transfer(S, total, written, finishes) ==
    LET started == MeterStart(S, total)
        copied == IF written > 0 THEN MeterWrite(started, written) ELSE started
    IN  IF finishes THEN MeterFinished(copied) ELSE copied

\* The bytes of a file of `size` bytes a failing transfer may have delivered.
Received(size) == { 0, size \div 2 }

\* downloadSnapDelta, as far as the progress goes: a meter of its own.
DeltaProgress(S, snapName, size, ok, written, finishes) ==
    LET pbar == UpdateStepProgress(NewProgressMeter(S, snapName, TRUE), 0)
        after == Transfer(pbar, size, IF ok THEN size ELSE written, finishes)
    IN  IF ok THEN MeterFinished(after) ELSE UpdateStepProgress(after, 0)

\* downloadSnapDeltaWithRetries: `failed` attempts that fail, then one that
\* succeeds if ok.
RECURSIVE DeltaRetriesProgress(_, _, _, _, _, _, _)
DeltaRetriesProgress(S, snapName, size, failed, ok, written, finishes) ==
    IF failed = 0
    THEN IF ok THEN DeltaProgress(S, snapName, size, TRUE, size, finishes) ELSE S
    ELSE DeltaRetriesProgress(DeltaProgress(S, snapName, size, FALSE, written, finishes),
                              snapName, size, failed - 1, ok, written, finishes)

\* The loop of downloadSnap on the one meter it creates.
RECURSIVE SnapAttemptsProgress(_, _, _, _, _, _)
SnapAttemptsProgress(S, size, failed, ok, written, finishes) ==
    IF failed = 0
    THEN IF ok THEN MeterFinished(Transfer(S, size, size, finishes)) ELSE S
    ELSE SnapAttemptsProgress(UpdateStepProgress(Transfer(S, size, written, finishes), 0),
                              size, failed - 1, ok, written, finishes)

\* downloadSnap, as far as the progress goes.
SnapProgress(S, snapName, size, failed, ok, written, finishes) ==
    SnapAttemptsProgress(UpdateStepProgress(NewProgressMeter(S, snapName, FALSE), 0),
                         size, failed, ok, written, finishes)

\* The loop of collectSnapsToProcess over a snapList: the sizes of the deltas
\* of an entry that has deltas, the size of the snap otherwise.
RECURSIVE SumSizes(_, _)
SumSizes(p, list) ==
    IF list = << >> THEN p
    ELSE LET item == Head(list)
             RECURSIVE addDeltas(_, _)
             addDeltas(q, ds) ==
                 IF ds = << >> THEN q
                 ELSE addDeltas([q EXCEPT !.snapSizeMap[item.name] = Head(ds).size,
                                          !.totalSnapSize = @ + Head(ds).size], Tail(ds))
         IN  SumSizes(IF Len(item.deltas) > 0
                      THEN addDeltas(p, item.deltas)
                      ELSE [p EXCEPT !.snapSizeMap[item.name] = item.size,
                                     !.totalSnapSize = @ + item.size],
                      Tail(list))

(***************************************************************************)
(* The environment of the first run.  The plain environment is an empty     *)
(* seed directory, the argument `hello`, and a store that serves every snap *)
(* and offers deltas on a refresh, hello having base core and core not      *)
(* being published on the default channel.  An environment differs from it  *)
(* in at most MaxDeviations of the dimensions below.                        *)
(***************************************************************************)
Dims == { "args", "deltas", "hello.found", "hello.channels", "hello.deps", "hello.info",
          "core.found", "core.channels", "core.base", "junk",
          "disk.snapd", "disk.bare", "disk.hello", "disk.core" }

Absent == [rev |-> 0, assert |-> "missing"]

\* A blob <name>_<rev>.snap of the initial directory and what is known of its
\* assertions: <name>_<rev>.assert complete, without its snap-revision block,
\* empty, or missing; "elsewhere" = missing too, the snap's assertions being kept
\* in a file <name>.assert.
DiskStates == { [rev |-> r, assert |-> a] : r \in 1..MaxDiskRev,
                                            a \in {"full", "norev", "empty", "missing", "elsewhere"} }

\* What an interrupted earlier run may have left in snaps/.
StrayFiles == { [name |-> "hello", from |-> 1, to |-> StoreRev, ext |-> "delta"],
                [name |-> "hello", from |-> 0, to |-> StoreRev, ext |-> "snap.partial"] }

\* The argument lists of this model.
ArgChoices == { {}, { << "hello" >> }, { << "hello" >>, << "core", "=", EdgeChannel >> } }

Plain(d) ==
    CASE d = "args"           -> { << "hello" >> }
      [] d = "deltas"         -> 2
      [] d = "hello.found"    -> TRUE
      [] d = "hello.channels" -> Channels
      [] d = "hello.deps"     -> [base |-> "core", prereqs |-> {}]
      [] d = "hello.info"     -> "sound"
      [] d = "core.found"     -> TRUE
      [] d = "core.channels"  -> {FallbackChannel, EdgeChannel}
      [] d = "core.base"      -> ""
      [] d = "junk"           -> {}
      [] OTHER                -> Absent

Others(d) ==
    CASE d = "args"           -> ArgChoices \ { Plain(d) }
      [] d = "deltas"         -> { 0 }
      [] d = "hello.found"    -> { FALSE }
      [] d = "hello.channels" -> { {FallbackChannel} }
      [] d = "hello.deps"     -> { [base |-> "", prereqs |-> {}], [base |-> "", prereqs |-> {"core"}] }
      [] d = "hello.info"     -> { "no snap-id", "no revision", "negative revision" }
      [] d = "core.found"     -> { FALSE }
      [] d = "core.channels"  -> { Channels }
      [] d = "core.base"      -> { "hello" }
      [] d = "junk"           -> { {f} : f \in StrayFiles }
      [] OTHER                -> DiskStates

PlainEnvironment == [d \in Dims |-> Plain(d)]

RECURSIVE Deviating(_)
Deviating(k) ==
    IF k = 0 THEN { PlainEnvironment }
    ELSE LET less == Deviating(k - 1) IN
         less \cup UNION { { [e EXCEPT ![d] = v] : e \in less, v \in Others(d) } : d \in Dims }

Environments == Deviating(MaxDeviations)

StoreOf(env) ==
    [n \in Names |->
        [found    |-> IF n = "hello" THEN env["hello.found"]
                      ELSE IF n = "core" THEN env["core.found"] ELSE TRUE,
         id       |-> IF n = "hello" /\ env["hello.info"] = "no snap-id" THEN "" ELSE n,
         channels |-> IF n = "hello" THEN env["hello.channels"]
                      ELSE IF n = "core" THEN env["core.channels"] ELSE Channels,
         rev      |-> IF n = "hello" /\ env["hello.info"] = "no revision" THEN 0
                      ELSE IF n = "hello" /\ env["hello.info"] = "negative revision" THEN 0 - StoreRev
                      ELSE StoreRev,
         size     |-> SnapSize,
         deltaSize |-> DeltaSize,
         base     |-> IF n = "hello" THEN env["hello.deps"].base
                      ELSE IF n = "core" THEN env["core.base"] ELSE "",
         prereqs  |-> IF n = "hello" THEN env["hello.deps"].prereqs ELSE {},
         deltas   |-> env["deltas"]]]

DiskOf(env, n) == env["disk." \o n]

OnDisk(env) == { n \in Names : DiskOf(env, n).rev > 0 }

SnapsOf(env) == { [name |-> n, rev |-> DiskOf(env, n).rev, good |-> TRUE] : n \in OnDisk(env) }

\* (rev 0 in an assertion file's record: the file name carries no revision)
AssertsOf(env) ==
    { [name |-> n,
       rev  |-> IF DiskOf(env, n).assert = "elsewhere" THEN 0 ELSE DiskOf(env, n).rev,
       id   |-> IF DiskOf(env, n).assert = "empty" THEN "" ELSE n,
       srev |-> IF DiskOf(env, n).assert \in {"full", "elsewhere"} THEN DiskOf(env, n).rev ELSE 0]
      : n \in { m \in OnDisk(env) : DiskOf(env, m).assert # "missing" } }

\* seed.yaml of a directory seeded earlier lists the snaps whose blob is there.
ManifestOf(env) ==
    LET order == << "snapd", "bare", "core", "hello" >>
        RECURSIVE list(_)
        list(s) == IF s = << >> THEN << >>
                   ELSE (IF Head(s) \in OnDisk(env)
                         THEN << [name |-> Head(s), channel |-> "",
                                  file |-> [name |-> Head(s), rev |-> DiskOf(env, Head(s)).rev]] >>
                         ELSE << >>) \o list(Tail(s))
    IN  list(order)

TopLevel == { "model", "account-key", "account" }

NoHistory ==
    [queries  |-> [n \in Names |-> << >>],
     entered  |-> [n \in Names |-> 0],
     resolved |-> [n \in Names |-> 0],
     emitted  |-> {},
     junk     |-> {},
     failedAt |-> "",
     error    |-> "",
     written  |-> {},
     purged   |-> FALSE,
     rewrites |-> 0,
     validated |-> FALSE,
     applier  |-> {},
     prevEnd  |-> "",
     prevArgs |-> {},
     start    |-> [snaps |-> {}, asserts |-> {}, junk |-> {}, manifest |-> << >>, top |-> {}],
     prev     |-> [snaps |-> {}, asserts |-> {}, junk |-> {}, manifest |-> << >>, top |-> {}]]

\* No assertion file is being looked into.
WriterIdle ==
    /\ assertions = << >>
    /\ assertionsFile = << >>
    /\ wstep = 0
    /\ assertErr = ""

\* No download loop is being looked into.
NoLoop == [fn |-> "", maxRetries |-> 0, attempts |-> 0, calls |-> 0, failed |-> 0, backoff |-> 0,
           slept |-> << >>, result |-> ""]

LoopIdle == loop = NoLoop

\* No file name is being looked into.
NoDir == [snaps |-> {}, assertions |-> {}, seed |-> << >>]

NoCall == [fn |-> ""]

NamesIdle == dir = NoDir /\ fcall = NoCall

\* The state in which main() starts in environment env.
StartOf(env) ==
    /\ args = env["args"]
    /\ store = StoreOf(env)
    /\ snapFiles = SnapsOf(env)
    /\ junkFiles = env["junk"]
    /\ assertFiles = AssertsOf(env)
    /\ topAssertions = IF OnDisk(env) = {} THEN {} ELSE TopLevel
    /\ manifestExists = (OnDisk(env) # {})
    /\ manifest = ManifestOf(env)
    /\ currentSnaps = << >>
    /\ requiredSnaps = {}
    /\ processedSnaps = {}
    /\ rootsLeft = {}
    /\ stack = << >>
    /\ workList = << >>
    /\ dl = [phase |-> "idle", i |-> 0]
    /\ pc = "start"
    /\ faults = 0
    /\ run = 1
    /\ progress = NoProgress
    /\ stdout = << >>
    /\ totalSnaps = 0
    /\ hist = NoHistory

Init ==
    \E env \in Environments : WriterIdle /\ LoopIdle /\ NamesIdle /\ StartOf(env)

(***************************************************************************)
(* main(), from its start to the range loop of collectSnapsToProcess        *)
(***************************************************************************)
\* An external call may fail or misbehave only while the budget lasts.
MayFail == faults < MaxFaults

\* The progress state of the process, with no meter in use.
Progress == [p |-> progress, out |-> stdout, pm |-> NoMeter]

Snapshot == [snaps |-> snapFiles, asserts |-> assertFiles, junk |-> junkFiles,
             manifest |-> manifest, top |-> topAssertions]

\* initializeDirectories, initializeSeedYaml, loadExistingSnaps, the loop that
\* fills currentSnaps (in the map's iteration order), the essential snaps and
\* the arguments, getVersionID.
Startup ==
    /\ pc = "start"
    /\ LET S == Report(Report(InitProgress(Progress), 2, "Loading existing snaps..."),
                       4, "Fetching information from the Snap Store...")
       IN  progress' = S.p /\ stdout' = S.out
    /\ manifestExists' = TRUE
    /\ LET loadable == { n \in loadExistingSnaps : getCurrentSnapInfo(n) # NoSnap } IN
       \E order \in Perms(loadable) :
           currentSnaps' = currentSnaps \o [i \in 1..Len(order) |-> getCurrentSnapInfo(order[i])]
    /\ requiredSnaps' = { Key(n) : n \in EssentialSnaps } \cup args
    /\ rootsLeft' = { Key(n) : n \in EssentialSnaps } \cup args
    /\ \E versionID \in BOOLEAN :
          /\ ~versionID => MayFail
          /\ faults' = IF versionID THEN faults ELSE faults + 1
          /\ pc' = IF versionID THEN "resolve" ELSE "failed"
          /\ hist' = [hist EXCEPT !.start = Snapshot,
                                  !.failedAt = IF versionID THEN "" ELSE "resolve",
                                  !.error = IF versionID THEN "" ELSE "VERSION_ID not found"]
    /\ UNCHANGED << args, store, snapFiles, junkFiles, assertFiles, topAssertions, manifest,
                    processedSnaps, stack, workList, dl, run, totalSnaps >>
    /\ UNCHANGED << writerVars, loopVars, nameVars >>

(***************************************************************************)
(* The resolver                                                             *)
(***************************************************************************)
Top == stack[Len(stack)]

WithTop(f) == [stack EXCEPT ![Len(stack)] = f]

\* for snapEntry := range requiredSnaps { collectSnapDependencies(snapName, ...) }
\* (an entry the resolver adds to the map while the loop runs names a processed
\* snap, so visiting it changes nothing; such visits are left out)
ResolveRoot ==
    /\ pc = "resolve"
    /\ stack = << >>
    /\ \E e \in rootsLeft :
         /\ rootsLeft' = rootsLeft \ {e}
         /\ IF EntryName(e) \in processedSnaps
            THEN UNCHANGED << currentSnaps, processedSnaps, requiredSnaps, workList, stack,
                              pc, hist, faults >>
            ELSE \E failing \in Faultable(EntryName(e), EntryChannel(e)) :
                   /\ failing # 0 => MayFail
                   /\ faults' = IF failing = 0 THEN faults ELSE faults + 1
                   /\ Collect(EntryName(e), EntryChannel(e), << >>, failing)
    /\ UNCHANGED << args, store, snapFiles, junkFiles, assertFiles, topAssertions,
                    manifestExists, manifest, dl, run, progress, stdout, totalSnaps >>
    /\ UNCHANGED << writerVars, loopVars, nameVars >>

\* for prereq := range missingPrereqs { if !processedSnaps[prereq] { collect... } }
ResolvePrereq ==
    /\ pc = "resolve"
    /\ stack # << >>
    /\ \E p \in Top.prereqs :
         LET stk == WithTop([Top EXCEPT !.prereqs = @ \ {p}]) IN
         IF p \in processedSnaps
         THEN /\ stack' = stk
              /\ UNCHANGED << currentSnaps, processedSnaps, requiredSnaps, workList, pc, hist, faults >>
         ELSE \E failing \in Faultable(p, Top.channel) :
                /\ failing # 0 => MayFail
                /\ faults' = IF failing = 0 THEN faults ELSE faults + 1
                /\ Collect(p, Top.channel, stk, failing)
    /\ UNCHANGED << args, store, snapFiles, junkFiles, assertFiles, topAssertions,
                    manifestExists, manifest, rootsLeft, dl, run, progress, stdout, totalSnaps >>
    /\ UNCHANGED << writerVars, loopVars, nameVars >>

\* The base is visited without looking at processedSnaps, in the caller and in
\* the callee.  (Variant; the program is ResolveBase.)
ResolveBaseUnguarded ==
    /\ pc = "resolve"
    /\ stack # << >>
    /\ Top.prereqs = {}
    /\ Top.baseLeft
    /\ Top.base # ""
    /\ Len(stack) <= Cardinality(Names)
    /\ UNCHANGED faults
    /\ Collect(Top.base, Top.channel, WithTop([Top EXCEPT !.baseLeft = FALSE]), 0)
    /\ UNCHANGED << args, store, snapFiles, junkFiles, assertFiles, topAssertions,
                    manifestExists, manifest, rootsLeft, dl, run, progress, stdout, totalSnaps >>
    /\ UNCHANGED << writerVars, loopVars, nameVars >>

\* if info.Base != "" && !processedSnaps[info.Base] { collectSnapDependencies(info.Base, ...) }
ResolveBase ==
    /\ pc = "resolve"
    /\ stack # << >>
    /\ Top.prereqs = {}
    /\ Top.baseLeft
    /\ Top.base # ""
    /\ Top.base \notin processedSnaps
    /\ \E failing \in Faultable(Top.base, Top.channel) :
         /\ failing # 0 => MayFail
         /\ faults' = IF failing = 0 THEN faults ELSE faults + 1
         /\ Collect(Top.base, Top.channel, WithTop([Top EXCEPT !.baseLeft = FALSE]), failing)
    /\ UNCHANGED << args, store, snapFiles, junkFiles, assertFiles, topAssertions,
                    manifestExists, manifest, rootsLeft, dl, run, progress, stdout, totalSnaps >>
    /\ UNCHANGED << writerVars, loopVars, nameVars >>

\* return snapDetailsList, nil
ResolveReturn ==
    /\ pc = "resolve"
    /\ stack # << >>
    /\ Top.prereqs = {}
    /\ ~Top.baseLeft \/ Top.base = "" \/ Top.base \in processedSnaps
    /\ stack' = SubSeq(stack, 1, Len(stack) - 1)
    /\ UNCHANGED << args, store, snapFiles, junkFiles, assertFiles, topAssertions,
                    manifestExists, manifest, currentSnaps, requiredSnaps, processedSnaps,
                    rootsLeft, workList, dl, pc, faults, run, progress, stdout, totalSnaps, hist >>
    /\ UNCHANGED << writerVars, loopVars, nameVars >>

\* collectSnapsToProcess returns, the sizes of what it returns summed up (it
\* adds them root by root; nothing reads the sum before it returns);
\* progressTracker.Finish("Finished collecting snap info"); totalSnaps;
\* progressTracker.UpdateStepProgress(0)
FinishCollecting ==
    /\ pc = "resolve"
    /\ stack = << >>
    /\ rootsLeft = {}
    /\ pc' = "process"
    /\ dl' = [phase |-> "blob", i |-> 1]
    /\ totalSnaps' = Len(workList)
    /\ LET S == UpdateStepProgress(Finish([Progress EXCEPT !.p = SumSizes(progress, workList)],
                                          "Finished collecting snap info"), 0)
       IN  progress' = S.p /\ stdout' = S.out
    /\ UNCHANGED << args, store, snapFiles, junkFiles, assertFiles, topAssertions,
                    manifestExists, manifest, currentSnaps, requiredSnaps, processedSnaps,
                    rootsLeft, stack, workList, faults, run, hist >>
    /\ UNCHANGED << writerVars, loopVars, nameVars >>

(***************************************************************************)
(* processSnap / downloadAndApplySnap for the head of the work list         *)
(***************************************************************************)
Item == Head(workList)

\* Writing <name>_<rev>.snap replaces a file of that name.
writeSnap(files, name, rev, good) ==
    { f \in files : ~(f.name = name /\ f.rev = rev) } \cup { [name |-> name, rev |-> rev, good |-> good] }

\* os.Create truncates <name>_<rev>.assert; the content follows when it is written.
writeAssert(files, name, rev, id, srev) ==
    { a \in files : ~(a.name = name /\ a.rev = rev) }
        \cup { [name |-> name, rev |-> rev, id |-> id, srev |-> srev] }

snapIsGood(name, rev) == \E f \in snapFiles : f.name = name /\ f.rev = rev /\ f.good

\* storeClient.Download(ctx, id, path, downloadInfo, ...): it fails, or it leaves
\* the file at path; it compares the digest of what it received only with a
\* digest given in downloadInfo, so without one it may deliver other bytes.
Download(sha3_384) ==
    { [ok |-> FALSE, good |-> FALSE], [ok |-> TRUE, good |-> TRUE] }
        \cup (IF sha3_384 = "" THEN { [ok |-> TRUE, good |-> FALSE] } ELSE {})

\* downloadSnap: DownloadInfo carries the URL only; up to MaxAttempts attempts,
\* the first that succeeds ends the loop.
downloadSnap ==
    { [ok |-> TRUE, attempts |-> k, good |-> d.good] :
          k \in 1..MaxAttempts, d \in { x \in Download("") : x.ok } }
        \cup { [ok |-> FALSE, attempts |-> MaxAttempts, good |-> FALSE] }

\* downloadSnapDeltaWithRetries(..., 5, ...): DownloadInfo carries the delta's
\* size and digest.
downloadSnapDeltaWithRetries ==
    { [ok |-> TRUE, attempts |-> k] : k \in 1..MaxAttempts }
        \cup { [ok |-> FALSE, attempts |-> MaxAttempts] }

\* applyDelta(oldSnapPath, deltaPath, downloadPath) is called; `present` tells
\* whether oldSnapPath was there.
ApplyCall(name, from) == [name |-> name, from |-> from, present |-> snapExists(name, from)]

\* A turn of the loop that calls applyDelta without looking for the blob of
\* the from-revision.  (Variant; the program is TryDelta.)
TryDeltaWithoutOldBlob ==
    /\ pc = "process"
    /\ workList # << >>
    /\ dl.phase = "blob"
    /\ dl.i <= Len(Item.deltas)
    /\ LET delta == Item.deltas[dl.i]
           deltaFile == [name |-> Item.name, from |-> delta.from, to |-> delta.to, ext |-> "delta"]
       IN \E d \in downloadSnapDeltaWithRetries, applied \in BOOLEAN,
             written \in Received(delta.size), finishes \in BOOLEAN :
            /\ (d.attempts > 1 \/ ~applied) => MayFail
            /\ LET S == DeltaRetriesProgress(Progress, Item.name, delta.size,
                                             IF d.ok THEN d.attempts - 1 ELSE d.attempts,
                                             d.ok, written, finishes)
               IN  progress' = S.p /\ stdout' = S.out
            /\ ~d.ok => ~applied
            /\ faults' = IF d.attempts > 1 \/ ~applied THEN faults + 1 ELSE faults
            /\ junkFiles' = junkFiles \cup
                   { IF d.ok THEN deltaFile ELSE [deltaFile EXCEPT !.ext = "delta.partial"] }
            /\ hist' = [hist EXCEPT !.junk = @ \cup (junkFiles' \ junkFiles),
                                    !.applier = IF d.ok
                                                THEN @ \cup {ApplyCall(Item.name, delta.from)}
                                                ELSE @]
            /\ IF d.ok /\ applied
               THEN /\ snapFiles' = writeSnap(snapFiles, Item.name, Item.rev,
                                              snapIsGood(Item.name, delta.from))
                    /\ dl' = [phase |-> "assert", i |-> dl.i]
               ELSE /\ dl' = [dl EXCEPT !.i = @ + 1]
                    /\ UNCHANGED snapFiles
    /\ UNCHANGED << args, store, assertFiles, topAssertions, manifestExists, manifest,
                    currentSnaps, requiredSnaps, processedSnaps, rootsLeft, stack, workList,
                    pc, run, totalSnaps >>
    /\ UNCHANGED << writerVars, loopVars, nameVars >>

\* A turn of the loop that ends the run when the delta cannot be downloaded.
\* (Variant; the program is TryDelta.)
TryDeltaFatal ==
    /\ pc = "process"
    /\ workList # << >>
    /\ dl.phase = "blob"
    /\ dl.i <= Len(Item.deltas)
    /\ LET delta == Item.deltas[dl.i]
           deltaFile == [name |-> Item.name, from |-> delta.from, to |-> delta.to, ext |-> "delta"]
       IN \E d \in downloadSnapDeltaWithRetries, applied \in BOOLEAN,
             written \in Received(delta.size), finishes \in BOOLEAN :
            /\ (d.attempts > 1 \/ ~applied) => MayFail
            /\ LET S == DeltaRetriesProgress(Progress, Item.name, delta.size,
                                             IF d.ok THEN d.attempts - 1 ELSE d.attempts,
                                             d.ok, written, finishes)
               IN  progress' = S.p /\ stdout' = S.out
            /\ ~d.ok => ~applied
            /\ (d.ok /\ ~snapExists(Item.name, delta.from)) => applied
            /\ faults' = IF d.attempts > 1 \/ ~applied THEN faults + 1 ELSE faults
            /\ junkFiles' = junkFiles \cup
                   { IF d.ok THEN deltaFile ELSE [deltaFile EXCEPT !.ext = "delta.partial"] }
            /\ hist' = [hist EXCEPT !.junk = @ \cup (junkFiles' \ junkFiles),
                                    !.applier = IF d.ok /\ snapExists(Item.name, delta.from)
                                                THEN @ \cup {ApplyCall(Item.name, delta.from)}
                                                ELSE @]
            /\ IF d.ok /\ snapExists(Item.name, delta.from) /\ applied
               THEN /\ snapFiles' = writeSnap(snapFiles, Item.name, Item.rev,
                                              snapIsGood(Item.name, delta.from))
                    /\ dl' = [phase |-> "assert", i |-> dl.i]
               ELSE /\ dl' = [dl EXCEPT !.i = @ + 1]
                    /\ UNCHANGED snapFiles
            /\ pc' = IF d.ok THEN pc ELSE "failed"
    /\ UNCHANGED << args, store, assertFiles, topAssertions, manifestExists, manifest,
                    currentSnaps, requiredSnaps, processedSnaps, rootsLeft, stack, workList,
                    run, totalSnaps >>
    /\ UNCHANGED << writerVars, loopVars, nameVars >>

\* One turn of the loop over result.Deltas: download the delta; if the blob of
\* its from-revision exists, apply it; on success the assertions follow.
TryDelta ==
    /\ pc = "process"
    /\ workList # << >>
    /\ dl.phase = "blob"
    /\ dl.i <= Len(Item.deltas)
    /\ LET delta == Item.deltas[dl.i]
           deltaFile == [name |-> Item.name, from |-> delta.from, to |-> delta.to, ext |-> "delta"]
       IN \E d \in downloadSnapDeltaWithRetries, applied \in BOOLEAN,
             written \in Received(delta.size), finishes \in BOOLEAN :
            /\ (d.attempts > 1 \/ ~applied) => MayFail
            /\ LET S == DeltaRetriesProgress(Progress, Item.name, delta.size,
                                             IF d.ok THEN d.attempts - 1 ELSE d.attempts,
                                             d.ok, written, finishes)
               IN  progress' = S.p /\ stdout' = S.out
            /\ ~d.ok => ~applied
            /\ (d.ok /\ ~snapExists(Item.name, delta.from)) => applied
            /\ faults' = IF d.attempts > 1 \/ ~applied THEN faults + 1 ELSE faults
            /\ junkFiles' = junkFiles \cup
                   { IF d.ok THEN deltaFile ELSE [deltaFile EXCEPT !.ext = "delta.partial"] }
            /\ hist' = [hist EXCEPT !.junk = @ \cup (junkFiles' \ junkFiles),
                                    !.applier = IF d.ok /\ snapExists(Item.name, delta.from)
                                                THEN @ \cup {ApplyCall(Item.name, delta.from)}
                                                ELSE @]
            /\ IF d.ok /\ snapExists(Item.name, delta.from) /\ applied
               THEN /\ snapFiles' = writeSnap(snapFiles, Item.name, Item.rev,
                                              snapIsGood(Item.name, delta.from))
                    /\ dl' = [phase |-> "assert", i |-> dl.i]
               ELSE /\ dl' = [dl EXCEPT !.i = @ + 1]
                    /\ UNCHANGED snapFiles
    /\ UNCHANGED << args, store, assertFiles, topAssertions, manifestExists, manifest,
                    currentSnaps, requiredSnaps, processedSnaps, rootsLeft, stack, workList,
                    pc, run, totalSnaps >>
    /\ UNCHANGED << writerVars, loopVars, nameVars >>

\* A full download that marks the snap required as soon as it has been
\* attempted.  (Variant; the program is FullDownload.)
FullDownloadMarkingRequired ==
    /\ pc = "process"
    /\ workList # << >>
    /\ dl.phase = "blob"
    /\ dl.i > Len(Item.deltas)
    /\ \E d \in downloadSnap, written \in Received(Item.size), finishes \in BOOLEAN :
         /\ (d.attempts > 1 \/ ~d.good) => MayFail
         /\ LET S == SnapProgress(Progress, Item.name, Item.size,
                                  IF d.ok THEN d.attempts - 1 ELSE d.attempts,
                                  d.ok, written, finishes)
            IN  progress' = S.p /\ stdout' = S.out
         /\ faults' = IF d.attempts > 1 \/ ~d.good THEN faults + 1 ELSE faults
         /\ IF d.ok
            THEN /\ snapFiles' = writeSnap(snapFiles, Item.name, Item.rev, d.good)
                 /\ dl' = [phase |-> "assert", i |-> dl.i]
                 /\ UNCHANGED << junkFiles, pc, hist >>
            ELSE /\ junkFiles' = junkFiles \cup
                        { [name |-> Item.name, from |-> 0, to |-> Item.rev, ext |-> "snap.partial"] }
                 /\ pc' = "failed"
                 /\ hist' = [hist EXCEPT !.failedAt = "download", !.error = "snap download failed",
                                         !.junk = @ \cup (junkFiles' \ junkFiles)]
                 /\ UNCHANGED << snapFiles, dl >>
    /\ requiredSnaps' = requiredSnaps \cup {Key(Item.name)}
    /\ UNCHANGED << args, store, assertFiles, topAssertions, manifestExists, manifest,
                    currentSnaps, processedSnaps, rootsLeft, stack, workList, run,
                    totalSnaps >>
    /\ UNCHANGED << writerVars, loopVars, nameVars >>

\* The fallback (or only) path: downloadSnap; its failure ends the run.
FullDownload ==
    /\ pc = "process"
    /\ workList # << >>
    /\ dl.phase = "blob"
    /\ dl.i > Len(Item.deltas)
    /\ \E d \in downloadSnap, written \in Received(Item.size), finishes \in BOOLEAN :
         /\ (d.attempts > 1 \/ ~d.good) => MayFail
         /\ LET S == SnapProgress(Progress, Item.name, Item.size,
                                  IF d.ok THEN d.attempts - 1 ELSE d.attempts,
                                  d.ok, written, finishes)
            IN  progress' = S.p /\ stdout' = S.out
         /\ faults' = IF d.attempts > 1 \/ ~d.good THEN faults + 1 ELSE faults
         /\ IF d.ok
            THEN /\ snapFiles' = writeSnap(snapFiles, Item.name, Item.rev, d.good)
                 /\ dl' = [phase |-> "assert", i |-> dl.i]
                 /\ UNCHANGED << junkFiles, pc, hist >>
            ELSE /\ junkFiles' = junkFiles \cup
                        { [name |-> Item.name, from |-> 0, to |-> Item.rev, ext |-> "snap.partial"] }
                 /\ pc' = "failed"
                 /\ hist' = [hist EXCEPT !.failedAt = "download", !.error = "snap download failed",
                                         !.junk = @ \cup (junkFiles' \ junkFiles)]
                 /\ UNCHANGED << snapFiles, dl >>
    /\ UNCHANGED << args, store, assertFiles, topAssertions, manifestExists, manifest,
                    currentSnaps, requiredSnaps, processedSnaps, rootsLeft, stack, workList, run,
                    totalSnaps >>
    /\ UNCHANGED << writerVars, loopVars, nameVars >>

\* A processSnap that does not mark the snap it has downloaded as required.
\* (Variant; the program is DownloadAssertions.)
DownloadAssertionsNotMarking ==
    /\ pc = "process"
    /\ workList # << >>
    /\ dl.phase = "assert"
    /\ \E fetched \in {"all", "no-snap-revision", "failed"} :
         /\ fetched # "all" => MayFail
         /\ faults' = IF fetched # "all" THEN faults + 1 ELSE faults
         /\ IF fetched = "failed"
            THEN /\ assertFiles' = writeAssert(assertFiles, Item.name, Item.rev, "", 0)
                 /\ pc' = "failed"
                 /\ hist' = [hist EXCEPT !.failedAt = "assertions", !.error = "failed to fetch assertion"]
                 /\ UNCHANGED << requiredSnaps, workList, dl, progress >>
            ELSE /\ assertFiles' = writeAssert(assertFiles, Item.name, Item.rev, Item.id,
                                               IF fetched = "all" THEN Item.rev ELSE 0)
                 /\ progress' = UpdateStepProgress(Progress, -1).p
                 /\ requiredSnaps' = requiredSnaps
                 /\ workList' = Tail(workList)
                 /\ dl' = [phase |-> "blob", i |-> 1]
                 /\ hist' = [hist EXCEPT !.written = @ \cup {Item.name}]
                 /\ UNCHANGED pc
    /\ UNCHANGED << args, store, snapFiles, junkFiles, topAssertions, manifestExists, manifest,
                    currentSnaps, processedSnaps, rootsLeft, stack, run, stdout, totalSnaps >>
    /\ UNCHANGED << writerVars, loopVars, nameVars >>

\* downloadAssertions, then requiredSnaps[name] = true in processSnap and
\* progressTracker.UpdateStepProgress(-1) in main's loop.  The file
\* is created first; a failed fetch of snap-declaration, account-key or account
\* ends the run, a failed fetch of snap-revision only leaves that block out.
DownloadAssertions ==
    /\ pc = "process"
    /\ workList # << >>
    /\ dl.phase = "assert"
    /\ \E fetched \in {"all", "no-snap-revision", "failed"} :
         /\ fetched # "all" => MayFail
         /\ faults' = IF fetched # "all" THEN faults + 1 ELSE faults
         /\ IF fetched = "failed"
            THEN /\ assertFiles' = writeAssert(assertFiles, Item.name, Item.rev, "", 0)
                 /\ pc' = "failed"
                 /\ hist' = [hist EXCEPT !.failedAt = "assertions", !.error = "failed to fetch assertion"]
                 /\ UNCHANGED << requiredSnaps, workList, dl, progress >>
            ELSE /\ assertFiles' = writeAssert(assertFiles, Item.name, Item.rev, Item.id,
                                               IF fetched = "all" THEN Item.rev ELSE 0)
                 /\ progress' = UpdateStepProgress(Progress, -1).p
                 /\ requiredSnaps' = requiredSnaps \cup {Key(Item.name)}
                 /\ workList' = Tail(workList)
                 /\ dl' = [phase |-> "blob", i |-> 1]
                 /\ hist' = [hist EXCEPT !.written = @ \cup {Item.name}]
                 /\ UNCHANGED pc
    /\ UNCHANGED << args, store, snapFiles, junkFiles, topAssertions, manifestExists, manifest,
                    currentSnaps, processedSnaps, rootsLeft, stack, run, stdout, totalSnaps >>
    /\ UNCHANGED << writerVars, loopVars, nameVars >>

(***************************************************************************)
(* Purge, manifest rewrite, validation, final cleanup                       *)
(***************************************************************************)
\* removeOrphanedFiles(name, revision): both files of that name and revision.
removeOrphanedFiles(files, gone) ==
    { f \in files : ~(\E g \in gone : g.name = f.name /\ g.rev = f.rev) }

\* The loop over snapsToProcess has ended: Finish("Downloading snaps completed")
\* if there were snaps, NextStep() if not.  Then cleanUpCurrentSnaps: keep the
\* entries whose name is a key of requiredSnaps, delete the files of the others.
cleanUpCurrentSnaps ==
    /\ pc = "process"
    /\ workList = << >>
    /\ LET S == IF totalSnaps > 0 THEN Finish(Progress, "Downloading snaps completed")
                ELSE NextStep(Progress)
       IN  progress' = S.p /\ stdout' = S.out
    /\ LET keep == { n \in Names : Key(n) \in requiredSnaps }
           gone == { currentSnaps[i] : i \in { j \in 1..Len(currentSnaps) : currentSnaps[j].name \notin keep } }
       IN /\ currentSnaps' = FilterSeq(currentSnaps, keep)
          /\ snapFiles' = removeOrphanedFiles(snapFiles, gone)
          /\ assertFiles' = removeOrphanedFiles(assertFiles, gone)
    /\ pc' = "rewrite"
    /\ hist' = [hist EXCEPT !.purged = TRUE]
    /\ UNCHANGED << args, store, junkFiles, topAssertions, manifestExists, manifest,
                    requiredSnaps, processedSnaps, rootsLeft, stack, workList, dl, faults, run,
                    totalSnaps >>
    /\ UNCHANGED << writerVars, loopVars, nameVars >>

\* strings.Replace(snapInfo.TrackingChannel, "latest/", "", -1) on the channel
\* names of this model.
normalizeChannel(ch) ==
    CASE ch = DefaultChannel  -> "stable/ubuntu-25.04"
      [] ch = FallbackChannel -> "stable"
      [] ch = EdgeChannel     -> "edge"
      [] OTHER                -> ch

\* The TrackingChannel of an entry of currentSnaps: no code sets it.
trackingChannel(snap) == ""

\* An updateSeedYaml that main also calls once the first snap is downloaded.
\* (Variant; the program is updateSeedYaml.)
updateSeedYamlEarly ==
    /\ pc = "rewrite" \/ (pc = "process" /\ dl.phase = "blob" /\ hist.written # {} /\ hist.rewrites = 0)
    /\ manifest' = [i \in 1..Len(currentSnaps) |->
                      [name    |-> currentSnaps[i].name,
                       channel |-> normalizeChannel(trackingChannel(currentSnaps[i])),
                       file    |-> [name |-> currentSnaps[i].name, rev |-> currentSnaps[i].rev]]]
    /\ pc' = IF pc = "rewrite" THEN "ensure" ELSE pc
    /\ hist' = [hist EXCEPT !.rewrites = @ + 1]
    /\ UNCHANGED << args, store, snapFiles, junkFiles, assertFiles, topAssertions, manifestExists,
                    currentSnaps, requiredSnaps, processedSnaps, rootsLeft, stack, workList,
                    dl, faults, run, progress, stdout, totalSnaps >>
    /\ UNCHANGED << writerVars, loopVars, nameVars >>

\* An updateSeedYaml that keeps the old entries whose name currentSnaps does not
\* hold, ahead of the new ones.  (Variant; the program is updateSeedYaml.)
updateSeedYamlMerging ==
    /\ pc = "rewrite"
    /\ LET held == { currentSnaps[i].name : i \in 1..Len(currentSnaps) }
           kept == FilterSeq(manifest, Names \ held)
       IN  manifest' = kept \o [i \in 1..Len(currentSnaps) |->
                                 [name    |-> currentSnaps[i].name,
                                  channel |-> normalizeChannel(trackingChannel(currentSnaps[i])),
                                  file    |-> [name |-> currentSnaps[i].name, rev |-> currentSnaps[i].rev]]]
    /\ pc' = "ensure"
    /\ hist' = [hist EXCEPT !.rewrites = @ + 1]
    /\ UNCHANGED << args, store, snapFiles, junkFiles, assertFiles, topAssertions, manifestExists,
                    currentSnaps, requiredSnaps, processedSnaps, rootsLeft, stack, workList,
                    dl, faults, run, progress, stdout, totalSnaps >>
    /\ UNCHANGED << writerVars, loopVars, nameVars >>

\* updateSeedYaml: the old entries are dropped, one entry per element of currentSnaps.
updateSeedYaml ==
    /\ pc = "rewrite"
    /\ manifest' = [i \in 1..Len(currentSnaps) |->
                      [name    |-> currentSnaps[i].name,
                       channel |-> normalizeChannel(trackingChannel(currentSnaps[i])),
                       file    |-> [name |-> currentSnaps[i].name, rev |-> currentSnaps[i].rev]]]
    /\ pc' = "ensure"
    /\ hist' = [hist EXCEPT !.rewrites = @ + 1]
    /\ UNCHANGED << args, store, snapFiles, junkFiles, assertFiles, topAssertions, manifestExists,
                    currentSnaps, requiredSnaps, processedSnaps, rootsLeft, stack, workList,
                    dl, faults, run, progress, stdout, totalSnaps >>
    /\ UNCHANGED << writerVars, loopVars, nameVars >>

\* removeStateJson and ensureAssertions: model, account-key, account are fetched
\* in this order when missing; a failed fetch ends the run.
ensureAssertions ==
    /\ pc = "ensure"
    /\ \E fetched \in SUBSET (TopLevel \ topAssertions) :
         /\ fetched # TopLevel \ topAssertions => MayFail
         /\ "account" \in fetched => "account-key" \in fetched \cup topAssertions
         /\ "account-key" \in fetched => "model" \in fetched \cup topAssertions
         /\ topAssertions' = topAssertions \cup fetched
         /\ IF fetched = TopLevel \ topAssertions
            THEN /\ pc' = "validate"
                 /\ UNCHANGED << faults, hist >>
            ELSE /\ pc' = "failed"
                 /\ faults' = faults + 1
                 /\ hist' = [hist EXCEPT !.failedAt = "ensure", !.error = "failed to fetch assertion"]
    /\ UNCHANGED << args, store, snapFiles, junkFiles, assertFiles, manifestExists, manifest,
                    currentSnaps, requiredSnaps, processedSnaps, rootsLeft, stack, workList, dl, run,
                    progress, stdout, totalSnaps >>
    /\ UNCHANGED << writerVars, loopVars, nameVars >>

\* A validateSeed whose error main does not treat as fatal.
\* (Variant; the program is validateSeed.)
validateSeedNotFatal ==
    /\ pc = "validate"
    /\ \E valid \in BOOLEAN :
         /\ pc' = "cleanup"
         /\ hist' = IF valid THEN [hist EXCEPT !.validated = TRUE]
                    ELSE [hist EXCEPT !.failedAt = "validate", !.error = "validation failed"]
    /\ UNCHANGED << args, store, snapFiles, junkFiles, assertFiles, topAssertions, manifestExists,
                    manifest, currentSnaps, requiredSnaps, processedSnaps, rootsLeft, stack,
                    workList, dl, faults, run, progress, stdout, totalSnaps >>
    /\ UNCHANGED << writerVars, loopVars, nameVars >>

\* A validateSeed after whose failure main still removes the stray files of
\* snaps/ before it exits.  (Variant; the program is validateSeed.)
validateSeedThenSweep ==
    /\ pc = "validate"
    /\ \E valid \in BOOLEAN :
         /\ pc' = IF valid THEN "cleanup" ELSE "failed"
         /\ junkFiles' = IF valid THEN junkFiles ELSE {}
         /\ hist' = IF valid THEN [hist EXCEPT !.validated = TRUE]
                    ELSE [hist EXCEPT !.failedAt = "validate", !.error = "validation failed"]
    /\ UNCHANGED << args, store, snapFiles, assertFiles, topAssertions, manifestExists,
                    manifest, currentSnaps, requiredSnaps, processedSnaps, rootsLeft, stack,
                    workList, dl, faults, run, progress, stdout, totalSnaps >>
    /\ UNCHANGED << writerVars, loopVars, nameVars >>

\* validateSeed: `snap debug validate-seed`, an external program; either verdict.
validateSeed ==
    /\ pc = "validate"
    /\ \E valid \in BOOLEAN :
         /\ pc' = IF valid THEN "cleanup" ELSE "failed"
         /\ hist' = IF valid THEN [hist EXCEPT !.validated = TRUE]
                    ELSE [hist EXCEPT !.failedAt = "validate", !.error = "validation failed"]
    /\ UNCHANGED << args, store, snapFiles, junkFiles, assertFiles, topAssertions, manifestExists,
                    manifest, currentSnaps, requiredSnaps, processedSnaps, rootsLeft, stack,
                    workList, dl, faults, run, progress, stdout, totalSnaps >>
    /\ UNCHANGED << writerVars, loopVars, nameVars >>

\* extractRevisionFromFile on the file field of a manifest entry
extractRevisionFromFile(file) == file.rev

\* loadSeedData, then validSnaps / validAssertions: <name>_<revision of file>
validFiles == { [name |-> manifest[i].name, rev |-> extractRevisionFromFile(manifest[i].file)]
                : i \in 1..Len(manifest) }

isValid(f) == \E v \in validFiles : v.name = f.name /\ v.rev = f.rev

\* A cleanUpFiles without its second loop, the one over assertions/.
\* (Variant; the program is cleanUpFiles.)
cleanUpFilesSnapsOnly ==
    /\ pc = "cleanup"
    /\ junkFiles' = {}
    /\ snapFiles' = { f \in snapFiles : isValid(f) }
    /\ LET S == Finish(Progress, "Cleanup and validation completed")
       IN  progress' = S.p /\ stdout' = S.out
    /\ pc' = "done"
    /\ UNCHANGED << args, store, assertFiles, topAssertions, manifestExists, manifest, currentSnaps,
                    requiredSnaps, processedSnaps, rootsLeft, stack, workList, dl, faults, run,
                    totalSnaps, hist >>
    /\ UNCHANGED << writerVars, loopVars, nameVars >>

\* A cleanUpFiles that removes *.partial but not *.delta.
\* (Variant; the program is cleanUpFiles.)
cleanUpFilesPartialOnly ==
    /\ pc = "cleanup"
    /\ junkFiles' = { j \in junkFiles : j.ext = "delta" }
    /\ snapFiles' = { f \in snapFiles : isValid(f) }
    /\ assertFiles' = { a \in assertFiles : isValid(a) }
    /\ LET S == Finish(Progress, "Cleanup and validation completed")
       IN  progress' = S.p /\ stdout' = S.out
    /\ pc' = "done"
    /\ UNCHANGED << args, store, topAssertions, manifestExists, manifest, currentSnaps,
                    requiredSnaps, processedSnaps, rootsLeft, stack, workList, dl, faults, run,
                    totalSnaps, hist >>
    /\ UNCHANGED << writerVars, loopVars, nameVars >>

\* cleanUpFiles: every .partial and .delta of snaps/ goes, and every .snap and
\* .assert that is not <name>_<rev> of a manifest entry; then the last status line.
cleanUpFiles ==
    /\ pc = "cleanup"
    /\ junkFiles' = {}
    /\ snapFiles' = { f \in snapFiles : isValid(f) }
    /\ assertFiles' = { a \in assertFiles : isValid(a) }
    /\ LET S == Finish(Progress, "Cleanup and validation completed")
       IN  progress' = S.p /\ stdout' = S.out
    /\ pc' = "done"
    /\ UNCHANGED << args, store, topAssertions, manifestExists, manifest, currentSnaps,
                    requiredSnaps, processedSnaps, rootsLeft, stack, workList, dl, faults, run,
                    totalSnaps, hist >>
    /\ UNCHANGED << writerVars, loopVars, nameVars >>

(***************************************************************************)
(* The tool is started again on the same directory, against an unchanged    *)
(* store: a new process, so the process-wide variables start empty.         *)
(***************************************************************************)
Restart ==
    /\ pc = "done"
    /\ faults = 0
    /\ run < MaxRuns
    /\ run' = run + 1
    /\ pc' = "start"
    /\ currentSnaps' = << >>
    /\ requiredSnaps' = {}
    /\ processedSnaps' = {}
    /\ rootsLeft' = {}
    /\ stack' = << >>
    /\ workList' = << >>
    /\ dl' = [phase |-> "idle", i |-> 0]
    /\ args' \in ArgChoices
    /\ progress' = NoProgress
    /\ stdout' = << >>
    /\ totalSnaps' = 0
    /\ hist' = [NoHistory EXCEPT !.prev = Snapshot, !.prevEnd = pc, !.prevArgs = args]
    /\ UNCHANGED << store, snapFiles, junkFiles, assertFiles, topAssertions,
                    manifestExists, manifest, faults >>
    /\ UNCHANGED << writerVars, loopVars, nameVars >>

Next ==
    \/ Startup
    \/ ResolveRoot
    \/ ResolvePrereq
    \/ ResolveBase
    \/ ResolveReturn
    \/ FinishCollecting
    \/ TryDelta
    \/ FullDownload
    \/ DownloadAssertions
    \/ cleanUpCurrentSnaps
    \/ updateSeedYaml
    \/ ensureAssertions
    \/ validateSeed
    \/ cleanUpFiles
    \/ Restart

Spec == Init /\ [][Next]_vars

(***************************************************************************)
(* The assertion writer (assertions.go), on its own: step 6 of              *)
(* downloadAssertions for one snap, from the four fetched assertions to the *)
(* content of <name>_<rev>.assert.  The file is the sequence of the pieces  *)
(* written to it.                                                           *)
(***************************************************************************)
\* The order of the calls of writeAssertion at step 6.
WriteOrder == << "account-key", "account", "snap-declaration", "snap-revision" >>

AssertionKinds == Range(WriteOrder)

\* fieldOrder of writeAssertion
fieldOrder(assertionType) ==
    CASE assertionType = "account-key" ->
             << "type", "authority-id", "revision", "public-key-sha3-384",
                "account-id", "name", "since", "body-length", "sign-key-sha3-384" >>
      [] assertionType = "account" ->
             << "type", "authority-id", "revision", "account-id", "display-name",
                "timestamp", "username", "validation", "sign-key-sha3-384" >>
      [] assertionType = "snap-declaration" ->
             << "type", "format", "authority-id", "revision", "series", "snap-id",
                "aliases", "auto-aliases", "plugs", "publisher-id", "slots",
                "snap-name", "timestamp", "sign-key-sha3-384" >>
      [] assertionType = "snap-revision" ->
             << "type", "authority-id", "snap-sha3-384", "developer-id",
                "provenance", "snap-id", "snap-revision", "snap-size",
                "timestamp", "sign-key-sha3-384" >>
      [] OTHER -> << >>

isComplexField(key) ==
    key \in { "aliases", "auto-aliases", "plugs", "slots", "allow-installation", "allow-connection" }

\* thresholdTime := time.Date(2023, time.December, 9, 0, 0, 0, 0, time.UTC), as yyyymmdd
ThresholdTime == 20231209

OldTime == "2023-12-09T00:00:00Z"
NewTime == "2024-06-01T00:00:00Z"

\* time.Parse(time.RFC3339, s) on the timestamps of this model; the zero Time
\* when s cannot be parsed (the error is dropped).
ParseTime(str) ==
    CASE str = OldTime -> 20231209
      [] str = NewTime -> 20240601
      [] OTHER -> 10101

\* The pieces written to the file.
Line(key, value) == [tag |-> "header", key |-> key, value |-> value]

\* what serializeComplexField writes for the value of a complex header
Nested(key, value) == [tag |-> "nested", key |-> key, value |-> value]

Newline == [tag |-> "newline", key |-> "", value |-> ""]

\* the bytes of the body, known by their number
Body(n) == [tag |-> "body", key |-> "", value |-> ToString(n)]

Signature(sig) == [tag |-> "signature", key |-> "", value |-> sig]

\* The loop of writeAssertion over fieldOrder[assertionType].
RECURSIVE writeHeaders(_, _, _, _)
writeHeaders(keys, assertionType, headers, bodyLength) ==
    IF keys = << >> THEN << >>
    ELSE LET key == Head(keys)
             rest == writeHeaders(Tail(keys), assertionType, headers, bodyLength)
         IN  IF key \notin DOMAIN headers \/ headers[key] = "" THEN rest
             ELSE IF key = "type" THEN << Line(key, assertionType) >> \o rest
             ELSE IF key = "body-length" /\ bodyLength > 0
                  THEN << Line("body-length", ToString(bodyLength)) >> \o rest
             ELSE IF isComplexField(key)
                  THEN << Line(key, ""), Nested(key, headers[key]) >> \o rest
             ELSE << Line(key, headers[key]) >> \o rest

\* After the headers: a newline, the body with two newlines if there is one,
\* the signature, and a newline unless the assertion is a snap-revision.
writeRest(assertionType, assertion) ==
    << Newline >>
        \o (IF assertion.body > 0 THEN << Body(assertion.body), Newline, Newline >> ELSE << >>)
        \o << Signature(assertion.signature) >>
        \o (IF assertionType # "snap-revision" THEN << Newline >> ELSE << >>)

\* A writeAssertion that writes the account assertion of every publisher.
\* (Variant; the program is writeAssertion.)
writeAssertionEveryAccount(assertionType, assertion, file) ==
    LET old == /\ assertionType = "snap-revision"
               /\ "timestamp" \in DOMAIN assertion.headers
               /\ ParseTime(assertion.headers["timestamp"]) <= ThresholdTime
        headers == IF old
                   THEN [k \in DOMAIN assertion.headers \ {"provenance"} |-> assertion.headers[k]]
                   ELSE assertion.headers
    IN  file \o writeHeaders(fieldOrder(assertionType), assertionType, headers, assertion.body)
             \o writeRest(assertionType, assertion)

\* A writeAssertion that never drops the provenance header.
\* (Variant; the program is writeAssertion.)
writeAssertionKeepingProvenance(assertionType, assertion, file) ==
    LET canonical == /\ assertionType = "account"
                     /\ "username" \in DOMAIN assertion.headers
                     /\ assertion.headers["username"] = "canonical"
    IN  IF canonical THEN file
        ELSE file \o writeHeaders(fieldOrder(assertionType), assertionType, assertion.headers,
                                  assertion.body)
                  \o writeRest(assertionType, assertion)

\* writeAssertion(assertionType, assertion, file): nothing for the account of
\* canonical; provenance is dropped from a snap-revision whose timestamp is not
\* after the threshold.
writeAssertion(assertionType, assertion, file) ==
    LET canonical == /\ assertionType = "account"
                     /\ "username" \in DOMAIN assertion.headers
                     /\ assertion.headers["username"] = "canonical"
        old == /\ assertionType = "snap-revision"
               /\ "timestamp" \in DOMAIN assertion.headers
               /\ ParseTime(assertion.headers["timestamp"]) <= ThresholdTime
        headers == IF old
                   THEN [k \in DOMAIN assertion.headers \ {"provenance"} |-> assertion.headers[k]]
                   ELSE assertion.headers
    IN  IF canonical THEN file
        ELSE file \o writeHeaders(fieldOrder(assertionType), assertionType, headers, assertion.body)
                  \o writeRest(assertionType, assertion)

(***************************************************************************)
(* The assertions the store may return (external).  An assertion has passed *)
(* the decoder of the library: it has a type header, and a body-length      *)
(* header exactly when it has a body, giving its length.  The usual         *)
(* assertion of a kind carries every header of the kind's table and one     *)
(* header the table does not know; a fetched one differs from it in at most *)
(* MaxOddHeaders headers, each missing, empty or of a value of its own.     *)
(***************************************************************************)
NilAssertion == [nil |-> TRUE, headers |-> << >>, body |-> 0, signature |-> ""]

Dropped == "(no such header)"

UsualKeys(kind) == (Range(fieldOrder(kind)) \ {"body-length"}) \cup {"until"}

UsualValue(kind, key) ==
    CASE key = "type"      -> kind
      [] key = "username"  -> "someone"
      [] key = "timestamp" -> NewTime
      [] OTHER             -> "value of " \o key

\* What a header may be instead; a type header that differs from the kind
\* asked for shows which of the two is written.
OddValues(key) ==
    CASE key = "type"      -> { "other-type" }
      [] key = "username"  -> { Dropped, "", "canonical" }
      [] key = "timestamp" -> { Dropped, "", OldTime, "yesterday" }
      [] OTHER             -> { Dropped, "" }

OddValuesOfAll == UNION { OddValues(key) : key \in UNION { UsualKeys(k) : k \in AssertionKinds } }

Oddities(kind) ==
    UNION { { odd \in [D -> OddValuesOfAll] : \A key \in D : odd[key] \in OddValues(key) }
            : D \in { E \in SUBSET UsualKeys(kind) : Cardinality(E) <= MaxOddHeaders } }

AssertionOf(kind, odd, body) ==
    LET kept == { key \in UsualKeys(kind) : ~(key \in DOMAIN odd /\ odd[key] = Dropped) } IN
    [nil |-> FALSE,
     headers |-> [key \in kept \cup (IF body > 0 THEN {"body-length"} ELSE {}) |->
                     IF key = "body-length" THEN ToString(body)
                     ELSE IF key \in DOMAIN odd THEN odd[key]
                     ELSE UsualValue(kind, key)],
     body |-> body,
     signature |-> "signature of " \o kind]

UsualAssertion(kind) ==
    AssertionOf(kind, << >>, IF kind = "account-key" THEN BodyLen ELSE 0)

FetchedAssertions(kind) ==
    { AssertionOf(kind, odd, body) : odd \in Oddities(kind), body \in {0, BodyLen} }

\* downloadAssertions has fetched: one assertion is any the store may return,
\* the others are the usual ones; the snap-revision may have failed to come.
InitWriter ==
    /\ StartOf(PlainEnvironment)
    /\ LoopIdle
    /\ NamesIdle
    /\ assertErr = ""
    /\ \E kind \in AssertionKinds, revisionCame \in BOOLEAN :
       \E a \in FetchedAssertions(kind) :
         assertions = [k \in AssertionKinds |->
                          IF k = "snap-revision" /\ ~revisionCame THEN NilAssertion
                          ELSE IF k = kind THEN a
                          ELSE UsualAssertion(k)]
    /\ assertionsFile = << >>
    /\ wstep = 0

\* writeAssertion("account-key", accountKeyAssertion, assertionsFile)
WriteAccountKey ==
    /\ wstep = 0
    /\ assertErr = ""
    /\ DOMAIN assertions = AssertionKinds
    /\ assertionsFile' = writeAssertion("account-key", assertions["account-key"], assertionsFile)
    /\ wstep' = 1
    /\ UNCHANGED << assertions, assertErr >>
    /\ UNCHANGED << mainVars, loopVars, nameVars >>

\* writeAssertion("account", accountAssertion, assertionsFile)
WriteAccount ==
    /\ wstep = 1
    /\ assertErr = ""
    /\ DOMAIN assertions = AssertionKinds
    /\ assertionsFile' = writeAssertion("account", assertions["account"], assertionsFile)
    /\ wstep' = 2
    /\ UNCHANGED << assertions, assertErr >>
    /\ UNCHANGED << mainVars, loopVars, nameVars >>

\* writeAssertion("snap-declaration", snapDecl, assertionsFile)
WriteSnapDeclaration ==
    /\ wstep = 2
    /\ assertErr = ""
    /\ DOMAIN assertions = AssertionKinds
    /\ assertionsFile' = writeAssertion("snap-declaration", assertions["snap-declaration"],
                                        assertionsFile)
    /\ wstep' = 3
    /\ UNCHANGED << assertions, assertErr >>
    /\ UNCHANGED << mainVars, loopVars, nameVars >>

\* if snapRevisionAssertion != nil { writeAssertion("snap-revision", ...) }; return nil
WriteSnapRevision ==
    /\ wstep = 3
    /\ assertErr = ""
    /\ DOMAIN assertions = AssertionKinds
    /\ assertionsFile' = IF assertions["snap-revision"].nil THEN assertionsFile
                         ELSE writeAssertion("snap-revision", assertions["snap-revision"],
                                             assertionsFile)
    /\ wstep' = 4
    /\ UNCHANGED << assertions, assertErr >>
    /\ UNCHANGED << mainVars, loopVars, nameVars >>

NextWriter ==
    \/ WriteAccountKey
    \/ WriteAccount
    \/ WriteSnapDeclaration
    \/ WriteSnapRevision

SpecWriter == InitWriter /\ [][NextWriter]_vars

(***************************************************************************)
(* downloadAssertions from os.Create to its return: the four fetches, the   *)
(* checks between them, and the writes of step 6                            *)
(***************************************************************************)
\* Steps 1, 3, 4 and 5.
FetchOrder == << "snap-declaration", "account-key", "account", "snap-revision" >>

\* The kinds fetched before a kind.
Before(kind) ==
    { FetchOrder[i] : i \in { j \in 1..Len(FetchOrder) :
                                \E k \in 1..Len(FetchOrder) : FetchOrder[k] = kind /\ j < k } }

\* os.Create has made the file; nothing is fetched yet.
InitFetch ==
    /\ StartOf(PlainEnvironment)
    /\ LoopIdle
    /\ NamesIdle
    /\ assertions = << >>
    /\ assertionsFile = << >>
    /\ wstep = 0
    /\ assertErr = ""

\* What storeClient.Assertion may return for a kind: an error, or an assertion;
\* at most one assertion of a chain is not the usual one.
Answers(kind) ==
    {NilAssertion}
        \cup (IF \E k \in DOMAIN assertions : ~assertions[k].nil /\ assertions[k] # UsualAssertion(k)
              THEN {UsualAssertion(kind)}
              ELSE FetchedAssertions(kind))

\* fmt.Errorf("failed to fetch %s assertion for snap ...")
FetchError(kind) == "failed to fetch " \o kind \o " assertion"

\* snapDecl.Header("sign-key-sha3-384").(string) is missing or empty
NoSignKey(a) ==
    "sign-key-sha3-384" \notin DOMAIN a.headers \/ a.headers["sign-key-sha3-384"] = ""

\* A fetch that lets the run go on without the assertion, whatever its kind.
\* (Variant; the program is Fetch.)
FetchTolerant(kind) ==
    /\ assertErr = ""
    /\ kind \notin DOMAIN assertions
    /\ Before(kind) \subseteq DOMAIN assertions
    /\ \E a \in Answers(kind) :
         /\ assertions' = assertions @@ (kind :> a)
         /\ assertErr' = ""
    /\ UNCHANGED << assertionsFile, wstep >>
    /\ UNCHANGED << mainVars, loopVars, nameVars >>

\* One fetch: storeClient.Assertion for the kind, reached when the kinds
\* before it have been fetched.  An error is returned for snap-declaration,
\* account-key and account, and only logged for snap-revision; a
\* snap-declaration without sign-key-sha3-384 is an error too.
Fetch(kind) ==
    /\ assertErr = ""
    /\ kind \notin DOMAIN assertions
    /\ Before(kind) \subseteq DOMAIN assertions
    /\ \E a \in Answers(kind) :
         IF a.nil /\ kind # "snap-revision"
         THEN /\ assertErr' = FetchError(kind)
              /\ UNCHANGED assertions
         ELSE /\ assertions' = assertions @@ (kind :> a)
              /\ assertErr' = IF kind = "snap-declaration" /\ NoSignKey(a)
                              THEN "snap-declaration assertion missing 'sign-key-sha3-384' header"
                              ELSE ""
    /\ UNCHANGED << assertionsFile, wstep >>
    /\ UNCHANGED << mainVars, loopVars, nameVars >>

\* Step 1
FetchSnapDeclaration ==
    /\ wstep = 0
    /\ Fetch("snap-declaration")

\* Step 3
FetchAccountKey ==
    /\ wstep = 0
    /\ Fetch("account-key")

\* Step 4
FetchAccount ==
    /\ wstep = 0
    /\ Fetch("account")

\* Step 5: hex.DecodeString(snapSHA) fails on a digest that is not hexadecimal.
DecodeFails ==
    /\ assertErr = ""
    /\ "snap-revision" \notin DOMAIN assertions
    /\ Before("snap-revision") \subseteq DOMAIN assertions
    /\ assertErr' = "error decoding SHA3-384 hex string"
    /\ UNCHANGED << assertions, assertionsFile, wstep >>
    /\ UNCHANGED << mainVars, loopVars, nameVars >>

\* Step 5, the fetch
FetchSnapRevision ==
    /\ wstep = 0
    /\ Fetch("snap-revision")

NextFetch ==
    \/ FetchSnapDeclaration
    \/ FetchAccountKey
    \/ FetchAccount
    \/ DecodeFails
    \/ FetchSnapRevision
    \/ WriteAccountKey
    \/ WriteAccount
    \/ WriteSnapDeclaration
    \/ WriteSnapRevision

SpecFetch == InitFetch /\ [][NextFetch]_vars

(***************************************************************************)
(* The download loops: downloadSnap and downloadSnapDeltaWithRetries        *)
(***************************************************************************)
\* The loops are called with their arguments; maxRetries is any limit up to
\* MaxRetriesLimit (downloadAndApplySnap passes 5), downloadSnap has its own.
StartLoop(fn, maxRetries) ==
    [fn |-> fn, maxRetries |-> maxRetries, attempts |-> 1, calls |-> 0, failed |-> 0,
     backoff |-> IF fn = "downloadSnapDeltaWithRetries" THEN 1 ELSE 0,
     slept |-> << >>, result |-> ""]

InitRetry ==
    /\ StartOf(PlainEnvironment)
    /\ WriterIdle
    /\ NamesIdle
    /\ \/ loop = StartLoop("downloadSnap", MaxAttempts)
       \/ \E maxRetries \in 0..MaxRetriesLimit :
             loop = StartLoop("downloadSnapDeltaWithRetries", maxRetries)

\* A turn of the loop of downloadSnap that gives up one attempt early.
\* (Variant; the program is SnapAttempt.)
SnapAttemptOneShort ==
    /\ loop.fn = "downloadSnap"
    /\ loop.result = ""
    /\ loop.attempts <= MaxAttempts
    /\ \E ok \in BOOLEAN :
         loop' = [loop EXCEPT !.calls = @ + 1,
                              !.failed = IF ok THEN @ ELSE @ + 1,
                              !.attempts = @ + 1,
                              !.result = IF ok THEN "nil"
                                         ELSE IF loop.attempts = MaxAttempts - 1 THEN "error"
                                         ELSE ""]
    /\ UNCHANGED << mainVars, writerVars, nameVars >>

\* for attempts := 1; attempts <= 5; attempts++: storeClient.Download; return
\* nil when it succeeds, the error when attempts == 5.
SnapAttempt ==
    /\ loop.fn = "downloadSnap"
    /\ loop.result = ""
    /\ loop.attempts <= MaxAttempts
    /\ \E ok \in BOOLEAN :
         loop' = [loop EXCEPT !.calls = @ + 1,
                              !.failed = IF ok THEN @ ELSE @ + 1,
                              !.attempts = @ + 1,
                              !.result = IF ok THEN "nil"
                                         ELSE IF loop.attempts = MaxAttempts THEN "error"
                                         ELSE ""]
    /\ UNCHANGED << mainVars, writerVars, nameVars >>

\* A turn of the delta loop whose backoff grows by one second.
\* (Variant; the program is DeltaAttempt.)
DeltaAttemptLinearBackoff ==
    /\ loop.fn = "downloadSnapDeltaWithRetries"
    /\ loop.result = ""
    /\ loop.attempts <= loop.maxRetries
    /\ \E ok \in BOOLEAN :
         loop' = IF ok THEN [loop EXCEPT !.calls = @ + 1, !.result = "nil"]
                 ELSE [loop EXCEPT !.calls = @ + 1,
                                   !.failed = @ + 1,
                                   !.slept = Append(@, loop.backoff),
                                   !.backoff = @ + 1,
                                   !.attempts = @ + 1]
    /\ UNCHANGED << mainVars, writerVars, nameVars >>

\* for attempts := 1; attempts <= maxRetries; attempts++: downloadSnapDelta;
\* return nil when it succeeds; otherwise time.Sleep(backoff); backoff *= 2.
\* (backoff in seconds)
DeltaAttempt ==
    /\ loop.fn = "downloadSnapDeltaWithRetries"
    /\ loop.result = ""
    /\ loop.attempts <= loop.maxRetries
    /\ \E ok \in BOOLEAN :
         loop' = IF ok THEN [loop EXCEPT !.calls = @ + 1, !.result = "nil"]
                 ELSE [loop EXCEPT !.calls = @ + 1,
                                   !.failed = @ + 1,
                                   !.slept = Append(@, loop.backoff),
                                   !.backoff = @ * 2,
                                   !.attempts = @ + 1]
    /\ UNCHANGED << mainVars, writerVars, nameVars >>

\* The loop has ended: return fmt.Errorf("delta download failed after %d attempts ...")
DeltaGiveUp ==
    /\ loop.fn = "downloadSnapDeltaWithRetries"
    /\ loop.result = ""
    /\ loop.attempts > loop.maxRetries
    /\ loop' = [loop EXCEPT !.result = "error"]
    /\ UNCHANGED << mainVars, writerVars, nameVars >>

NextRetry ==
    \/ SnapAttempt
    \/ DeltaAttempt
    \/ DeltaGiveUp

SpecRetry == InitRetry /\ [][NextRetry]_vars

(***************************************************************************)
(* File names (utils.go, findPreviousSnap, updateSeedYaml, cleanUpFiles),   *)
(* on their own.  A text is a sequence of one-character strings; the        *)
(* operators below are those of the Go packages strings, strconv and fmt    *)
(* on such texts.                                                           *)
(***************************************************************************)
\* strings.HasSuffix, strings.HasPrefix, strings.TrimSuffix
HasSuffix(s, suffix) ==
    Len(s) >= Len(suffix) /\ SubSeq(s, Len(s) - Len(suffix) + 1, Len(s)) = suffix

HasPrefix(s, prefix) ==
    Len(s) >= Len(prefix) /\ SubSeq(s, 1, Len(prefix)) = prefix

TrimSuffix(s, suffix) ==
    IF HasSuffix(s, suffix) THEN SubSeq(s, 1, Len(s) - Len(suffix)) ELSE s

\* strings.LastIndex(s, "_") for a one-character substr: counted from 0, -1
\* when there is none.
LastIndex(s, c) ==
    LET at == { i \in 1..Len(s) : s[i] = c } IN
    IF at = {} THEN -1 ELSE Max(at) - 1

\* strings.Index: where substr first starts, counted from 0, -1 when nowhere.
Index(s, substr) ==
    LET at == { i \in 1..(Len(s) - Len(substr) + 1) : SubSeq(s, i, i + Len(substr) - 1) = substr } IN
    IF at = {} THEN -1 ELSE (CHOOSE i \in at : \A j \in at : i <= j) - 1

\* strings.Replace(s, old, new, 1)
ReplaceFirst(s, old, new) ==
    LET i == Index(s, old) IN
    IF i = -1 THEN s
    ELSE SubSeq(s, 1, i) \o new \o SubSeq(s, i + Len(old) + 1, Len(s))

Digits == << "0", "1", "2", "3", "4", "5", "6", "7", "8", "9" >>

IsDigit(c) == \E d \in 1..10 : Digits[d] = c

DigitValue(c) == (CHOOSE d \in 1..10 : Digits[d] = c) - 1

RECURSIVE DecimalValue(_)
DecimalValue(s) ==
    IF s = << >> THEN 0
    ELSE 10 * DecimalValue(SubSeq(s, 1, Len(s) - 1)) + DigitValue(s[Len(s)])

\* strconv.Atoi: an optional sign, then one digit at least and digits only.
Atoi(s) ==
    LET signed == s # << >> /\ s[1] \in {"+", "-"}
        digits == IF signed THEN Tail(s) ELSE s
    IN  IF digits = << >> \/ \E i \in 1..Len(digits) : ~IsDigit(digits[i])
        THEN [ok |-> FALSE, n |-> 0]
        ELSE [ok |-> TRUE,
              n  |-> IF signed /\ s[1] = "-" THEN 0 - DecimalValue(digits) ELSE DecimalValue(digits)]

\* The verb %d of fmt.Sprintf.
RECURSIVE Itoa(_)
Itoa(n) ==
    IF n < 0 THEN << "-" >> \o Itoa(0 - n)
    ELSE IF n < 10 THEN << Digits[n + 1] >>
    ELSE Itoa(n \div 10) \o << Digits[(n % 10) + 1] >>

DotSnap == << ".", "s", "n", "a", "p" >>
DotAssert == << ".", "a", "s", "s", "e", "r", "t" >>
DotDelta == << ".", "d", "e", "l", "t", "a" >>
DotPartial == << ".", "p", "a", "r", "t", "i", "a", "l" >>

\* fmt.Sprintf("%s_%d.snap", name, revision), fmt.Sprintf("%s_%s.snap", name, revision)
SnapFileName(name, revision) == name \o << "_" >> \o Itoa(revision) \o DotSnap

SnapFileNameOf(name, revisionText) == name \o << "_" >> \o revisionText \o DotSnap

AssertFileNameOf(name, revisionText) == name \o << "_" >> \o revisionText \o DotAssert

\* extractRevisionFromFile(fileName string) string
extractRevisionFromFileName(fileName) ==
    LET lastUnderscore == LastIndex(fileName, "_") IN
    IF lastUnderscore = -1 THEN << >>
    ELSE LET revisionWithSuffix == SubSeq(fileName, lastUnderscore + 2, Len(fileName)) IN
         IF HasSuffix(revisionWithSuffix, DotSnap) THEN TrimSuffix(revisionWithSuffix, DotSnap)
         ELSE IF HasSuffix(revisionWithSuffix, DotAssert) THEN TrimSuffix(revisionWithSuffix, DotAssert)
         ELSE revisionWithSuffix

\* The names of this model: a snap, and an instance of it under another key.
Hello == << "h", "e", "l", "l", "o" >>
HelloDev == Hello \o << "_", "d", "e", "v" >>
SnapNames == { Hello, HelloDev }

\* What stands in a file name where the revision is expected.
RevisionTexts == { << "1" >>, << "2" >>, << "1", "2" >>, << "0", "2" >>, << "+", "2" >>, << "-", "2" >>,
                   << "x", "2" >>, << >> }

\* The suffixes of the files found in a seed directory, none included.
Suffixes == { DotSnap, DotAssert, DotDelta, DotSnap \o DotPartial, << >> }

\* <name>_<from>_to_<to>.delta, as downloadAndApplySnap names a delta
DeltaFileName(name, from, to) ==
    name \o << "_" >> \o Itoa(from) \o << "_", "t", "o", "_" >> \o Itoa(to) \o DotDelta

\* The top-level files of assertions/.
TopLevelFiles == { << "m", "o", "d", "e", "l" >>,
                   << "a", "c", "c", "o", "u", "n", "t" >>,
                   << "a", "c", "c", "o", "u", "n", "t", "-", "k", "e", "y" >> }

\* The file names given to extractRevisionFromFile in this model.
FileNames ==
    { n \o << "_" >> \o r \o x : n \in SnapNames, r \in RevisionTexts, x \in Suffixes }
        \cup { n \o x : n \in SnapNames, x \in Suffixes }
        \cup { DeltaFileName(Hello, 1, 2) }
        \cup TopLevelFiles

\* extractRevisionFromFile is called with one of these names and returns.
ExtractRevision ==
    /\ fcall.fn = "extractRevisionFromFile"
    /\ ~fcall.returned
    /\ fcall' = [fcall EXCEPT !.returned = TRUE,
                              !.revision = extractRevisionFromFileName(fcall.fileName)]
    /\ UNCHANGED dir
    /\ UNCHANGED << mainVars, writerVars, loopVars >>

\* The characters of the file names, in the order of their codes: os.ReadDir
\* returns the entries sorted by file name.
Alphabet == << "+", "-", ".", "0", "1", "2", "3", "4", "5", "6", "7", "8", "9", "_",
               "a", "b", "c", "d", "e", "f", "g", "h", "i", "j", "k", "l", "m",
               "n", "o", "p", "q", "r", "s", "t", "u", "v", "w", "x", "y", "z" >>

CharCode(c) == CHOOSE i \in 1..Len(Alphabet) : Alphabet[i] = c

RECURSIVE NameLess(_, _)
NameLess(a, b) ==
    IF a = << >> THEN b # << >>
    ELSE IF b = << >> THEN FALSE
    ELSE IF a[1] = b[1] THEN NameLess(Tail(a), Tail(b))
    ELSE CharCode(a[1]) < CharCode(b[1])

\* os.ReadDir: the entries of a directory, sorted by file name.
RECURSIVE ReadDir(_)
ReadDir(files) ==
    IF files = {} THEN << >>
    ELSE LET first == CHOOSE f \in files : \A g \in files \ {f} : NameLess(f, g)
         IN  << first >> \o ReadDir(files \ {first})

\* The snap-id header of an assertion file of this model: one per file.
SnapIdIn(assertFile) == << "i", "d", "-" >> \o TrimSuffix(assertFile, DotAssert)

\* parseSnapInfo(assertFilePath, snapName): the snap-id header of the file, no
\* header when the file cannot be opened.
parseSnapInfoByName(assertFile, snapName) ==
    IF assertFile \in dir.assertions
    THEN [name |-> snapName, id |-> SnapIdIn(assertFile), rev |-> 0]
    ELSE [name |-> snapName, id |-> << >>, rev |-> 0]

\* findPreviousSnap, one turn of `for _, file := range files`.
findPreviousSnapVisit ==
    /\ fcall.fn = "findPreviousSnap"
    /\ fcall.files # << >>
    /\ LET file == Head(fcall.files)
           revisionStr == extractRevisionFromFileName(file)
           revision == Atoi(revisionStr)
       IN  IF /\ HasPrefix(file, fcall.snapName \o << "_" >>)
              /\ HasSuffix(file, DotSnap)
              /\ revisionStr # << >>
              /\ revision.ok
              /\ revision.n > fcall.latestRevision
           THEN fcall' = [fcall EXCEPT
                    !.files = Tail(@),
                    !.latestRevision = revision.n,
                    !.latestSnapPath = file,
                    !.currentSnap =
                        [parseSnapInfoByName(ReplaceFirst(file, DotSnap, DotAssert), fcall.snapName)
                            EXCEPT !.rev = revision.n]]
           ELSE fcall' = [fcall EXCEPT !.files = Tail(@)]
    /\ UNCHANGED dir
    /\ UNCHANGED << mainVars, writerVars, loopVars >>

\* findPreviousSnap, after the loop: the path and the snap, or "" and nil.
findPreviousSnapReturn ==
    /\ fcall.fn = "findPreviousSnap"
    /\ fcall.files = << >>
    /\ ~fcall.returned
    /\ fcall' = [fcall EXCEPT !.returned = TRUE,
                              !.found = (fcall.latestSnapPath # << >>)]
    /\ UNCHANGED dir
    /\ UNCHANGED << mainVars, writerVars, loopVars >>

\* One entry of seed.yaml.
SeedEntry(snap) == [name |-> snap.name, file |-> SnapFileName(snap.name, snap.rev)]

\* updateSeedYaml, with the file names spelled out: one entry per element of
\* currentSnaps.
updateSeedYamlByName ==
    /\ fcall.fn = "cleanUpFiles"
    /\ fcall.step = "rewrite"
    /\ dir' = [dir EXCEPT !.seed = [i \in 1..Len(fcall.currentSnaps) |-> SeedEntry(fcall.currentSnaps[i])]]
    /\ fcall' = [fcall EXCEPT !.step = "cleanup"]
    /\ UNCHANGED << mainVars, writerVars, loopVars >>

\* validSnaps and validAssertions of cleanUpFiles.
validSnapNames ==
    { SnapFileNameOf(dir.seed[i].name, extractRevisionFromFileName(dir.seed[i].file))
        : i \in { j \in 1..Len(dir.seed) : extractRevisionFromFileName(dir.seed[j].file) # << >> } }

validAssertionNames ==
    { AssertFileNameOf(dir.seed[i].name, extractRevisionFromFileName(dir.seed[i].file))
        : i \in { j \in 1..Len(dir.seed) : extractRevisionFromFileName(dir.seed[j].file) # << >> } }

\* A cleanUpFiles that removes from assertions/ every file the manifest does
\* not name, whatever its suffix.  (Variant; the program is cleanUpFilesByName.)
cleanUpFilesAnySuffix ==
    /\ fcall.fn = "cleanUpFiles"
    /\ fcall.step = "cleanup"
    /\ dir' = [dir EXCEPT
                 !.snaps = { f \in @ : /\ ~HasSuffix(f, DotPartial)
                                       /\ ~HasSuffix(f, DotDelta)
                                       /\ HasSuffix(f, DotSnap) => f \in validSnapNames },
                 !.assertions = { f \in @ : f \in validAssertionNames }]
    /\ fcall' = [fcall EXCEPT !.step = "done"]
    /\ UNCHANGED << mainVars, writerVars, loopVars >>

\* cleanUpFiles, with the file names spelled out.
cleanUpFilesByName ==
    /\ fcall.fn = "cleanUpFiles"
    /\ fcall.step = "cleanup"
    /\ dir' = [dir EXCEPT
                 !.snaps = { f \in @ : /\ ~HasSuffix(f, DotPartial)
                                       /\ ~HasSuffix(f, DotDelta)
                                       /\ HasSuffix(f, DotSnap) => f \in validSnapNames },
                 !.assertions = { f \in @ : HasSuffix(f, DotAssert) => f \in validAssertionNames }]
    /\ fcall' = [fcall EXCEPT !.step = "done"]
    /\ UNCHANGED << mainVars, writerVars, loopVars >>

\* The files that may lie in snaps/ and in assertions/.
SnapDirFiles ==
    { SnapFileNameOf(n, r) : n \in SnapNames, r \in RevisionTexts }
        \cup { DeltaFileName(Hello, 1, 2), SnapFileName(Hello, 2) \o DotPartial, Hello \o DotSnap,
               << "n", "o", "t", "e", "s" >> }

AssertDirFiles ==
    { AssertFileNameOf(n, Itoa(r)) : n \in SnapNames, r \in {1, 2, 12, 0 - 2} } \cup { Hello \o DotAssert }

\* The directories of at most MaxFiles files each.
Listings(pool) == { d \in SUBSET pool : Cardinality(d) <= MaxFiles }

\* The lists currentSnaps may be when the manifest is rewritten.
CurrentSnapsByName ==
    { << >>,
      << [name |-> Hello, rev |-> 2] >>,
      << [name |-> Hello, rev |-> 0 - 2] >>,
      << [name |-> HelloDev, rev |-> 12] >>,
      << [name |-> Hello, rev |-> 1], [name |-> HelloDev, rev |-> 2] >> }

\* A call of extractRevisionFromFile, a call of findPreviousSnap on a snaps
\* directory some of whose blobs have their assertion file, or the end of main
\* from the manifest rewrite on, with the top-level assertions in place.
InitNames ==
    /\ StartOf(PlainEnvironment)
    /\ WriterIdle
    /\ LoopIdle
    /\ \/ /\ dir = NoDir
          /\ \E fileName \in FileNames :
                fcall = [fn |-> "extractRevisionFromFile", fileName |-> fileName,
                         returned |-> FALSE, revision |-> << >>]
       \/ \E snaps \in Listings(SnapDirFiles), snapName \in SnapNames :
          \E withAssert \in SUBSET { f \in snaps : HasSuffix(f, DotSnap) } :
             /\ dir = [snaps |-> snaps,
                       assertions |-> { ReplaceFirst(f, DotSnap, DotAssert) : f \in withAssert },
                       seed |-> << >>]
             /\ fcall = [fn |-> "findPreviousSnap", snapName |-> snapName, files |-> ReadDir(snaps),
                         latestRevision |-> 0, latestSnapPath |-> << >>,
                         currentSnap |-> [name |-> << >>, id |-> << >>, rev |-> 0],
                         returned |-> FALSE, found |-> FALSE]
       \/ \E snaps \in Listings(SnapDirFiles), asserts \in Listings(AssertDirFiles),
             cs \in CurrentSnapsByName :
             /\ dir = [snaps |-> snaps, assertions |-> asserts \cup TopLevelFiles,
                       seed |-> << SeedEntry([name |-> Hello, rev |-> 1]) >>]
             /\ fcall = [fn |-> "cleanUpFiles", step |-> "rewrite", currentSnaps |-> cs,
                         before |-> [snaps |-> snaps, assertions |-> asserts \cup TopLevelFiles]]

NextNames ==
    \/ ExtractRevision
    \/ findPreviousSnapVisit
    \/ findPreviousSnapReturn
    \/ updateSeedYamlByName
    \/ cleanUpFilesByName

SpecNames == InitNames /\ [][NextNames]_vars

(***************************************************************************)
(* Vocabulary of the properties                                             *)
(***************************************************************************)
\* The names given on the command line, with the two essential snaps.
Requested == EssentialSnaps \cup { EntryName(e) : e \in args }

\* What the store declares a snap to need: its base and its content providers.
Deps(n) == (IF store[n].base # "" THEN { store[n].base } ELSE {}) \cup store[n].prereqs

RECURSIVE Reach(_)
Reach(S) == LET more == S \cup UNION { Deps(n) : n \in S } IN IF more = S THEN S ELSE Reach(more)

\* The transitive dependency closure of the request.
Closure == Reach(Requested)

ManifestNames == { manifest[i].name : i \in 1..Len(manifest) }

ListedAtStart == { hist.start.manifest[i].name : i \in 1..Len(hist.start.manifest) }

\* The files <name>_<rev>.snap and <name>_<rev>.assert a manifest entry names.
EntryHasBlob(e) == \E f \in snapFiles : f.name = e.name /\ f.rev = e.file.rev
EntryHasAssert(e) == \E a \in assertFiles : a.name = e.name /\ a.rev = e.file.rev

Succeeded == pc = "done"
Ended == pc \in {"done", "failed"}

BlobRevsAtStart(n) == { f.rev : f \in { g \in hist.start.snaps : g.name = n } }

(***************************************************************************)
(* C1                                                                       *)
(***************************************************************************)
\* C1: after every successful run, every manifest entry has both its blob
\* snaps/<name>_<rev>.snap and its assertion file assertions/<name>_<rev>.assert,
\* whatever the seed directory held at the start.
C1_EveryEntryHasBothFiles ==
    Succeeded => \A i \in 1..Len(manifest) : EntryHasBlob(manifest[i]) /\ EntryHasAssert(manifest[i])

\* A first run that found hello_2.snap without hello_2.assert, the assertions of
\* that blob being in hello.assert, the store serving revision 2: it ends
\* successfully with the blob listed, hello_2.assert never written and
\* hello.assert deleted.
C1_AssertionNeverWritten ==
    /\ Succeeded
    /\ run = 1
    /\ [name |-> "hello", rev |-> StoreRev, good |-> TRUE] \in hist.start.snaps
    /\ [name |-> "hello", rev |-> 0, id |-> "hello", srev |-> StoreRev] \in hist.start.asserts
    /\ \E i \in 1..Len(manifest) : /\ manifest[i].name = "hello"
                                   /\ EntryHasBlob(manifest[i])
                                   /\ ~EntryHasAssert(manifest[i])
    /\ ~\E a \in assertFiles : a.name = "hello"

(***************************************************************************)
(* C2                                                                       *)
(***************************************************************************)
\* C2: after a successful run the manifest names exactly the transitive closure
\* of the requested names plus snapd and bare, each name in exactly one entry.
C2_ManifestIsTheClosure ==
    Succeeded =>
        /\ ManifestNames = Closure
        /\ \A i, j \in 1..Len(manifest) : manifest[i].name = manifest[j].name => i = j

\* A successful run that leaves two entries of one name.
C2_DuplicateEntry ==
    /\ Succeeded
    /\ \E i, j \in 1..Len(manifest) : i # j /\ manifest[i].name = manifest[j].name

C5_NoWrongDigestAccepted ==
    /\ \A f \in snapFiles : f.good
    /\ hist.failedAt = "download" => pc = "failed" /\ hist.rewrites = 0
    /\ \A i \in 1..Len(manifest) : \A f \in snapFiles :
           (f.name = manifest[i].name /\ f.rev = manifest[i].file.rev) => f.good

\* A successful run whose manifest names a blob with other bytes.
C5_WrongBytesSeeded ==
    /\ Succeeded
    /\ \E i \in 1..Len(manifest) : \E f \in snapFiles :
           f.name = manifest[i].name /\ f.rev = manifest[i].file.rev /\ ~f.good

(***************************************************************************)
(* C6                                                                       *)
(***************************************************************************)
\* C6: when the store answers `snap not found` for a requested or reached name,
\* or resolution fails for any other reason, the run ends in a fatal error
\* before any download, assertion write, deletion or manifest rewrite: the seed
\* directory is as the run found it (the directories and an empty manifest may
\* have been created).
C6_FailedResolutionTouchesNothing ==
    /\ \A n \in Names : (hist.queries[n] # << >> /\ ~store[n].found) => hist.failedAt = "resolve"
    /\ hist.failedAt = "resolve" =>
           /\ pc = "failed"
           /\ Snapshot = hist.start
           /\ hist.rewrites = 0

\* The store does not know the base of a requested snap: hello is resolved and
\* waits in the work list when the query for core ends the run.
C6_BaseNotFound ==
    /\ pc = "failed"
    /\ hist.error = ErrNotFound
    /\ hist.queries["core"] # << >>
    /\ "hello" \in processedSnaps
    /\ workList # << >>

(***************************************************************************)
(* C7                                                                       *)
(***************************************************************************)
\* C7: a resolved snap becomes a work item exactly when no blob of it is on
\* disk or the greatest revision on disk is below the store's; otherwise it is
\* marked required, and the .snap and .assert files it had at the start are
\* still there, unchanged, when the run has ended.
C7_WorkItemRule ==
    \A n \in Names : hist.resolved[n] > 0 =>
        /\ n \in hist.emitted <=>
               (BlobRevsAtStart(n) = {} \/ Max(BlobRevsAtStart(n)) < hist.resolved[n])
        /\ n \notin hist.emitted =>
               /\ Key(n) \in requiredSnaps
               /\ Ended => /\ \A f \in hist.start.snaps : f.name = n => f \in snapFiles
                           /\ \A a \in hist.start.asserts : a.name = n => a \in assertFiles

\* hello_3.snap was on disk, the store serves revision 2: no work item, and the
\* run, once the validator has passed the seed, has deleted the blob.
C7_KeptBlobDeleted ==
    /\ Succeeded
    /\ hist.resolved["hello"] = StoreRev
    /\ "hello" \notin hist.emitted
    /\ [name |-> "hello", rev |-> StoreRev + 1, good |-> TRUE] \in hist.start.snaps
    /\ ~snapExists("hello", StoreRev + 1)

(***************************************************************************)
(* C8                                                                       *)
(***************************************************************************)
\* C8: after a successful run, a snap the manifest listed at the start that was
\* neither requested nor reached is absent from the manifest and has no files
\* left; every requested or reached snap has a manifest entry and its files.
C8_PurgeRule ==
    Succeeded =>
        /\ \A n \in ListedAtStart \ (Requested \cup processedSnaps) :
               /\ n \notin ManifestNames
               /\ ~\E f \in snapFiles : f.name = n
               /\ ~\E a \in assertFiles : a.name = n
        /\ \A n \in Requested \cup processedSnaps :
               \E i \in 1..Len(manifest) :
                   manifest[i].name = n /\ EntryHasBlob(manifest[i]) /\ EntryHasAssert(manifest[i])

\* A successful run after which a requested or reached snap that had a blob at
\* the start has a manifest entry without its pair of files.
C8_ReachedSnapLostFiles ==
    /\ Succeeded
    /\ \E n \in Requested \cup processedSnaps :
           /\ \E f \in hist.start.snaps : f.name = n
           /\ \E i \in 1..Len(manifest) : manifest[i].name = n
           /\ \A i \in 1..Len(manifest) : manifest[i].name = n =>
                  ~(EntryHasBlob(manifest[i]) /\ EntryHasAssert(manifest[i]))

(***************************************************************************)
(* C9                                                                       *)
(***************************************************************************)
\* C9: a second run with the same arguments against an unchanged store changes
\* nothing: no file added or removed, the manifest the same, in the same order.
C9_SecondRunIsNoOp ==
    (run > 1 /\ Succeeded /\ hist.prevArgs = args) => Snapshot = hist.prev

\* A second run with the same arguments that kept every file and every manifest
\* entry and wrote the entries in another order.
C9_OrderChanged ==
    /\ run > 1
    /\ Succeeded
    /\ hist.prevArgs = args
    /\ snapFiles = hist.prev.snaps
    /\ assertFiles = hist.prev.asserts
    /\ Len(manifest) = Len(hist.prev.manifest)
    /\ Range(manifest) = Range(hist.prev.manifest)
    /\ manifest # hist.prev.manifest

(***************************************************************************)
(* C10                                                                      *)
(***************************************************************************)
\* The work the resolver has left: the snaps it has not processed, the roots it
\* has not visited, and what the active calls have still to do.
RECURSIVE FrameWork(_)
FrameWork(stk) ==
    IF stk = << >> THEN 0
    ELSE 1 + Cardinality(Head(stk).prereqs) + (IF Head(stk).baseLeft THEN 1 ELSE 0)
           + FrameWork(Tail(stk))

ResolverWork ==
    (Cardinality(Names) + 3) * Cardinality(Names \ processedSnaps)
        + Cardinality(rootsLeft) + FrameWork(stack)

\* C10: dependency resolution terminates on every finite dependency graph,
\* cycles included (every step of the resolver lowers ResolverWork, a natural
\* number); a name is added to processedSnaps at most once; the store is
\* queried for a name only while the name is not in processedSnaps.
C10_ResolutionTerminates ==
    /\ [](\A n \in Names : hist.entered[n] <= 1)
    /\ [][(pc = "resolve" /\ pc' = "resolve") => ResolverWork' < ResolverWork]_vars
    /\ [][\A n \in Names : Len(hist'.queries[n]) > Len(hist.queries[n])
                              => n \notin processedSnaps]_vars

\* hello has base core and core has base hello: both are processed once and the
\* resolver has returned.
C10_CycleResolved ==
    /\ pc = "process"
    /\ store["hello"].base = "core"
    /\ store["core"].base = "hello"
    /\ hist.entered["hello"] = 1
    /\ hist.entered["core"] = 1
    /\ stack = << >>

(***************************************************************************)
(* Progress lines                                                           *)
(***************************************************************************)
LastLine == "Cleanup and validation completed"

\* The last status line is among the lines printed by this run.
Emitted == \E i \in 1..Len(stdout) : stdout[i].status = LastLine

\* Nothing is left for the final purge to remove.
Purged ==
    /\ junkFiles = {}
    /\ \A f \in snapFiles : isValid(f)
    /\ \A a \in assertFiles : isValid(a)

\* C11: the status line `Cleanup and validation completed` is among the lines
\* of a run exactly when the run has succeeded; when it is there, the manifest
\* has been rewritten, the validator has accepted it and the final purge is
\* done; it is printed by the step that follows the validation and at no other
\* point, so never in a run that has ended with a fatal error.
C11_StatusLineIffSuccess ==
    /\ [](Emitted <=> Succeeded)
    /\ [](Emitted => hist.rewrites = 1 /\ hist.validated /\ Purged)
    /\ [](pc = "failed" => ~Emitted)
    /\ [][(~Emitted /\ Emitted') => (pc = "cleanup" /\ pc' = "done")]_vars

\* A run that downloaded snaps has printed the line.
C11_LineAfterDownloads == Emitted /\ Succeeded /\ totalSnaps > 0 /\ hist.validated

\* The percentages of the lines printed, in the order of printing.
Percentages == [i \in 1..Len(stdout) |-> stdout[i].percentage]

\* A delta of that snap was downloaded, or tried, in this run.
DeltaTried(n) == \E j \in hist.junk : j.name = n /\ j.ext \in {"delta", "delta.partial"}

\* C12: the percentages of the progress lines of a run never decrease, retries
\* and a full download after a delta included.
C12_PercentagesNeverDecrease ==
    \A i \in 1..(Len(stdout) - 1) : Percentages[i] <= Percentages[i + 1]

\* A successful run whose full download of a snap, after a delta of it, was
\* reported with a percentage above the one of the line that follows.
C12_DropAfterDeltaThenFull ==
    /\ Succeeded
    /\ \E i \in 1..(Len(stdout) - 1) :
         /\ Percentages[i] > Percentages[i + 1]
         /\ \E n \in Names : DeltaTried(n) /\ stdout[i].status = "Downloading snap " \o n

\* C13: in a successful run the last progress line carries 100, with and
\* without downloads.
C13_LastLineIs100 ==
    Succeeded => (Len(stdout) > 0 /\ Percentages[Len(stdout)] = 100)

\* A run that downloaded snaps without any failure ends on a line below 100.
C13_EndsBelow100 ==
    /\ Succeeded
    /\ faults = 0
    /\ totalSnaps > 0
    /\ stdout[Len(stdout)].status = LastLine
    /\ Percentages[Len(stdout)] < 100

\* C14: no progress line carries a percentage above 100.
C14_NeverAbove100 ==
    \A i \in 1..Len(stdout) : Percentages[i] <= 100

\* The full download that follows a delta that could not be applied is
\* reported above 100.
C14_Above100AfterFailedDelta ==
    \E i \in 1..Len(stdout), n \in Names :
        /\ DeltaTried(n)
        /\ stdout[i].status = "Downloading snap " \o n
        /\ Percentages[i] > 100

(***************************************************************************)
(* Order of the manifest rewrite                                            *)
(***************************************************************************)
\* A step that writes seed.yaml's list of snaps.
Rewrites == manifest' # manifest \/ hist'.rewrites = hist.rewrites + 1

\* C15: seed.yaml is rewritten at most once per run and exactly once in a
\* successful run; the step that rewrites it finds the work list empty, every
\* work item's blob and assertions written and the purge of the non-required
\* entries done, and the validator has not run yet; the validator runs only on
\* the rewritten file; a run that failed while resolving, downloading or
\* fetching assertions has not touched the list.
C15_RewriteOnceInOrder ==
    /\ [](hist.rewrites <= 1)
    /\ [](Succeeded => hist.rewrites = 1)
    /\ [][Rewrites => /\ hist.rewrites = 0
                      /\ workList = << >>
                      /\ hist.written = hist.emitted
                      /\ hist.purged
                      /\ ~hist.validated /\ hist.failedAt = ""]_vars
    /\ [][(pc = "validate" /\ pc' # pc) => hist.rewrites = 1]_vars
    /\ []((pc = "failed" /\ hist.failedAt \in {"resolve", "download", "assertions"})
            => (hist.rewrites = 0 /\ manifest = hist.start.manifest))

\* A run with downloads has rewritten the manifest, changing it, and the
\* validator has then accepted it.
C15_RewrittenThenValidated ==
    /\ hist.rewrites = 1
    /\ hist.written # {}
    /\ manifest # hist.start.manifest
    /\ hist.validated

(***************************************************************************)
(* Blob and assertion file of a snap acquired in this run                   *)
(***************************************************************************)
\* <name>_<rev>.assert is there and the writes of downloadAssertions reached it
\* (with or without the snap-revision block).
AssertionWritten(n, rev) ==
    \E a \in assertFiles : a.name = n /\ a.rev = rev /\ a.id # ""

\* C16: at every point of a run, a fatal end included, a snap put on the work
\* list by this run whose blob <name>_<rev>.snap is present has its assertion
\* file <name>_<rev>.assert present and written.
C16_BlobImpliesAssertion ==
    \A n \in hist.emitted :
        snapExists(n, hist.resolved[n]) => AssertionWritten(n, hist.resolved[n])

\* The run has ended on a failed assertion fetch: the blob of the snap is in
\* snaps/, its assertion file is empty.
C16_BlobLeftWithoutAssertion ==
    /\ pc = "failed"
    /\ hist.failedAt = "assertions"
    /\ \E n \in hist.emitted :
         /\ snapExists(n, hist.resolved[n])
         /\ assertExists(n, hist.resolved[n])
         /\ ~AssertionWritten(n, hist.resolved[n])

(***************************************************************************)
(* The assertion file                                                       *)
(***************************************************************************)
\* Where the blocks of the file start: at their type header.
BlockStarts == { i \in 1..Len(assertionsFile) :
                    assertionsFile[i].tag = "header" /\ assertionsFile[i].key = "type" }

\* The kinds of the blocks of the file, in the order of the file.
RECURSIVE KindsFrom(_)
KindsFrom(i) ==
    IF i > Len(assertionsFile) THEN << >>
    ELSE (IF i \in BlockStarts THEN << assertionsFile[i].value >> ELSE << >>) \o KindsFrom(i + 1)

BlockKinds == KindsFrom(1)

Signatures == { i \in 1..Len(assertionsFile) : assertionsFile[i].tag = "signature" }

IsCanonical(a) == "username" \in DOMAIN a.headers /\ a.headers["username"] = "canonical"

\* C17: the finished file holds the blocks account-key, account,
\* snap-declaration, snap-revision in this order, each at most once, the
\* account block missing exactly when the account's username is canonical, the
\* snap-revision block exactly when its fetch failed.
C17_BlocksInOrder ==
    wstep = 4 =>
        /\ BlockKinds = << "account-key" >>
                            \o (IF IsCanonical(assertions["account"]) THEN << >> ELSE << "account" >>)
                            \o << "snap-declaration" >>
                            \o (IF assertions["snap-revision"].nil THEN << >> ELSE << "snap-revision" >>)
        /\ Cardinality(Signatures) = Len(BlockKinds)

\* The file of a snap of canonical whose snap-revision could not be fetched:
\* two blocks.
C17_CanonicalWithoutRevision ==
    /\ wstep = 4
    /\ IsCanonical(assertions["account"])
    /\ assertions["snap-revision"].nil
    /\ BlockKinds = << "account-key", "snap-declaration" >>

\* The block of a kind: from its type header to the piece before the next
\* type header.
BlockOf(kind) ==
    LET first == CHOOSE i \in BlockStarts : assertionsFile[i].value = kind
        later == { j \in BlockStarts : j > first }
        last  == IF later = {} THEN Len(assertionsFile)
                 ELSE (CHOOSE j \in later : \A k \in later : j <= k) - 1
    IN  SubSeq(assertionsFile, first, last)

HasBlock(kind) == \E i \in BlockStarts : assertionsFile[i].value = kind

\* The keys of the header lines of a block, in the order of the block.
RECURSIVE HeaderKeys(_)
HeaderKeys(block) ==
    IF block = << >> THEN << >>
    ELSE (IF Head(block).tag = "header" THEN << Head(block).key >> ELSE << >>)
             \o HeaderKeys(Tail(block))

\* The keys of a table that satisfy a test, in the order of the table.
RECURSIVE Chosen(_, _)
Chosen(keys, wanted) ==
    IF keys = << >> THEN << >>
    ELSE (IF Head(keys) \in wanted THEN << Head(keys) >> ELSE << >>) \o Chosen(Tail(keys), wanted)

NonEmpty(a) == { key \in DOMAIN a.headers : a.headers[key] # "" }

\* The snap-revision is one whose provenance header is dropped.
Stripped(kind, a) ==
    /\ kind = "snap-revision"
    /\ "timestamp" \in DOMAIN a.headers
    /\ ParseTime(a.headers["timestamp"]) <= ThresholdTime

\* The type header comes first and names the kind; body-length is there only
\* with a body, and gives its length.
TypeAndBodyLength(kind) ==
    LET block == BlockOf(kind) IN
    /\ block[1] = Line("type", kind)
    /\ \A i \in 1..Len(block) :
         (block[i].tag = "header" /\ block[i].key = "body-length")
            => (assertions[kind].body > 0 /\ block[i].value = ToString(assertions[kind].body))

\* C18 (as stated): in every block the header keys are the keys of the kind's
\* table whose fetched value is present and not empty, in the order of the
\* table; the type header is first with the kind's name; body-length is
\* written only with a body and carries its length.
C18_HeadersAsFetched ==
    \A kind \in AssertionKinds :
        HasBlock(kind) =>
            /\ HeaderKeys(BlockOf(kind)) = Chosen(fieldOrder(kind), NonEmpty(assertions[kind]))
            /\ TypeAndBodyLength(kind)

\* C18 (amended): the same, except that the provenance header of a
\* snap-revision whose timestamp is not after 2023-12-09T00:00:00Z, or cannot be
\* parsed, is never written.
C18_HeadersAsFetchedButProvenance ==
    \A kind \in AssertionKinds :
        HasBlock(kind) =>
            /\ HeaderKeys(BlockOf(kind)) =
                   Chosen(fieldOrder(kind),
                          NonEmpty(assertions[kind])
                              \ (IF Stripped(kind, assertions[kind]) THEN {"provenance"} ELSE {}))
            /\ TypeAndBodyLength(kind)

\* A snap-revision of the threshold day that came with a provenance header has
\* been written, with a header left out of its block.
C18_OldRevisionWritten ==
    /\ wstep = 4
    /\ HasBlock("snap-revision")
    /\ Stripped("snap-revision", assertions["snap-revision"])
    /\ assertions["snap-revision"].headers["timestamp"] = OldTime
    /\ "provenance" \in NonEmpty(assertions["snap-revision"])
    /\ Len(HeaderKeys(BlockOf("snap-revision"))) < Len(fieldOrder("snap-revision"))

(***************************************************************************)
(* C19                                                                      *)
(***************************************************************************)
OnePerName(cs) == \A i, j \in 1..Len(cs) : cs[i].name = cs[j].name => i = j

\* The list without the first entry of a name.
WithoutEntryOf(cs, n) ==
    LET idx == { i \in 1..Len(cs) : cs[i].name = n } IN
    IF idx = {} THEN cs
    ELSE RemoveAt(cs, CHOOSE i \in idx : \A j \in idx : i <= j)

\* C19: currentSnaps never holds two entries of one name, and the step that
\* records a resolved snap removes the prior entry of that name, leaves every
\* other entry where it was, and appends the new entry, whatever the revision
\* numbers of the other entries are.
C19_OneEntryPerName ==
    /\ [](OnePerName(currentSnaps))
    /\ [][\A n \in Names :
            hist'.entered[n] > hist.entered[n] =>
                /\ Len(currentSnaps') = Len(WithoutEntryOf(currentSnaps, n)) + 1
                /\ SubSeq(currentSnaps', 1, Len(currentSnaps') - 1) = WithoutEntryOf(currentSnaps, n)
                /\ currentSnaps'[Len(currentSnaps')].name = n]_vars

\* During resolution the list holds two entries of one name, and the entry of
\* another name that was loaded with the same revision number is gone.
C19_EntryOfOtherNameRemoved ==
    /\ pc \notin {"done", "failed"}
    /\ \E i, j \in 1..Len(currentSnaps) :
          /\ i # j
          /\ currentSnaps[i].name = currentSnaps[j].name
    /\ \E m \in ListedAtStart : \A i \in 1..Len(currentSnaps) : currentSnaps[i].name # m

(***************************************************************************)
(* C20                                                                      *)
(***************************************************************************)
\* The snap has no usable previous blob: none found, or one whose assertion
\* file gives no snap-id or no revision.
NoValidPrevious(n) ==
    LET old == findPreviousSnap(n).snap IN old = NoSnap \/ old.id = "" \/ old.rev = 0

\* The store calls the step has made for a snap.
NewQueries(n) == SubSeq(hist'.queries[n], Len(hist.queries[n]) + 1, Len(hist'.queries[n]))

\* C20: a snap without a valid previous blob is resolved by install(name,
\* channel); there is a second call exactly when the first fails with `no snap
\* revision available as specified`, and it is install(name, fallback), the
\* last call; any other error of the first call and any error of the second
\* ends the run, with nothing recorded for the snap.
C20_InstallThenOneFallback ==
    [][\A n \in Names :
         (NewQueries(n) # << >> /\ NoValidPrevious(n)) =>
            LET q == NewQueries(n)
                first == fetchOrRefreshSnapInfo(n, NoSnap, q[1].channel)
                retry == fetchOrRefreshSnapInfo(n, NoSnap, FallbackChannel)
                failed == pc' = "failed" /\ hist'.failedAt = "resolve"
            IN  /\ q[1].op = "install"
                /\ q[1].channel \in Channels
                /\ Len(q) <= 2
                /\ Len(q) = 2 => (first.err = ErrChannelMiss /\ q[2] = Query("install", FallbackChannel))
                /\ Len(q) = 1 => (IF failed THEN hist'.error # ErrChannelMiss ELSE first.err = "")
                /\ (Len(q) = 2 /\ retry.err # "") => failed
                /\ (Len(q) = 2 /\ failed) => hist'.error \in {retry.err, ErrUnavailable} \ {""}
                /\ (Len(q) = 2 /\ ~failed) => (retry.err = "" /\ hist'.resolved[n] = retry.rev)
                /\ ~failed => stack'[Len(stack')].channel = q[1].channel
                /\ failed => /\ currentSnaps' = currentSnaps
                             /\ workList' = workList
                             /\ hist'.resolved[n] = hist.resolved[n]]_vars

\* A snap without a previous blob was not on the channel asked for and has
\* been resolved by the second call, on the fallback channel.
C20_ResolvedOnFallback ==
    \E n \in Names :
        /\ Len(hist.queries[n]) = 2
        /\ hist.queries[n][1].op = "install"
        /\ hist.queries[n][1].channel # FallbackChannel
        /\ hist.queries[n][2] = Query("install", FallbackChannel)
        /\ hist.resolved[n] > 0
        /\ pc = "resolve"

(***************************************************************************)
(* C21                                                                      *)
(***************************************************************************)
\* The step resolves snap n: it has asked the store about it.
Resolving(n) == Len(hist'.queries[n]) > Len(hist.queries[n])

ResolveFailed == pc' = "failed" /\ hist'.failedAt = "resolve"

WorkNames(list) == { list[i].name : i \in 1..Len(list) }

\* C21: when a snap with a valid previous blob is refreshed and the store
\* answers `snap has no updates available`, the next call is install(name,
\* channel); unless that call fails the run goes on, no work item is emitted
\* for the snap, the snap is marked required, and a frame with the base and the
\* prerequisites of the fresh Info is pushed for the walk of its dependencies.
C21_NoUpdateMeansUpToDate ==
    [][\A n \in Names :
         (/\ Resolving(n)
          /\ ~NoValidPrevious(n)
          /\ fetchOrRefreshSnapInfo(n, findPreviousSnap(n).snap, NewQueries(n)[1].channel).err = ErrNoUpdate
          \* the refresh has been answered, not cut short by a failure of the store
          /\ ~(Len(NewQueries(n)) = 1 /\ ResolveFailed /\ hist'.error = ErrUnavailable)) =>
            LET q == NewQueries(n)
                fresh == fetchOrRefreshSnapInfo(n, NoSnap, q[1].channel)
            IN  /\ q[1].op = "refresh"
                /\ Len(q) = 2
                /\ q[2] = Query("install", q[1].channel)
                /\ ResolveFailed => hist'.error \in {fresh.err, ErrUnavailable} \ {""}
                /\ ~ResolveFailed =>
                      /\ fresh.err = ""
                      /\ workList' = workList
                      /\ n \notin WorkNames(workList')
                      /\ Key(n) \in requiredSnaps'
                      /\ n \in processedSnaps'
                      /\ stack' # << >>
                      /\ stack'[Len(stack')].name = n
                      /\ stack'[Len(stack')].base = fresh.base
                      /\ stack'[Len(stack')].prereqs = fresh.prereqs
                      /\ stack'[Len(stack')].baseLeft]_vars

\* hello is on disk at the store's revision, was found up to date by
\* refresh and install, is required and not in the work list, and its base is
\* being resolved.
C21_UpToDateSnapWalked ==
    /\ pc = "resolve"
    /\ hist.queries["hello"] = << Query("refresh", DefaultChannel), Query("install", DefaultChannel) >>
    /\ Key("hello") \in requiredSnaps
    /\ "hello" \notin WorkNames(workList)
    /\ hist.entered["core"] > 0

(***************************************************************************)
(* C22                                                                      *)
(***************************************************************************)
\* The step's first call was cut short by a failure of the store.
FirstCallFailed(n) ==
    Len(NewQueries(n)) = 1 /\ ResolveFailed /\ hist'.error = ErrUnavailable

\* C22: no snap is asked about more than three times in a run; when the
\* refresh of a snap on its channel is answered `no snap revision available as
\* specified`, the second call is refresh(name, fallback), a third call is made
\* exactly when the second is answered `snap has no updates available` and is
\* install(name, fallback); every other error of a call ends the run with
\* nothing recorded for the snap.
C22_RefreshFallbackChain ==
    /\ [](\A n \in Names : Len(hist.queries[n]) <= MaxStoreCalls)
    /\ [][\A n \in Names :
            (/\ Resolving(n)
             /\ ~NoValidPrevious(n)
             /\ fetchOrRefreshSnapInfo(n, findPreviousSnap(n).snap, NewQueries(n)[1].channel).err
                    = ErrChannelMiss
             /\ ~FirstCallFailed(n)) =>
               LET q == NewQueries(n)
                   second == fetchOrRefreshSnapInfo(n, findPreviousSnap(n).snap, FallbackChannel)
                   third == fetchOrRefreshSnapInfo(n, NoSnap, FallbackChannel)
               IN  /\ q[1].op = "refresh"
                   /\ Len(q) \in {2, 3}
                   /\ q[2] = Query("refresh", FallbackChannel)
                   /\ Len(q) = 3 => (second.err = ErrNoUpdate /\ q[3] = Query("install", FallbackChannel))
                   /\ (Len(q) = 2 /\ ~ResolveFailed) => (second.err = "" /\ hist'.resolved[n] = second.rev)
                   /\ (Len(q) = 2 /\ ResolveFailed) =>
                          hist'.error \in ({second.err, ErrUnavailable} \ {"", ErrNoUpdate})
                   /\ (Len(q) = 3 /\ ~ResolveFailed) => (third.err = "" /\ hist'.resolved[n] = third.rev)
                   /\ (Len(q) = 3 /\ ResolveFailed) => hist'.error \in ({third.err, ErrUnavailable} \ {""})
                   /\ ResolveFailed => /\ currentSnaps' = currentSnaps
                                       /\ workList' = workList
                                       /\ hist'.resolved[n] = hist.resolved[n]]_vars

\* core, held at the store's revision and not published on the channel asked
\* for, has been resolved with the three calls.
C22_ThreeCalls ==
    \E n \in Names :
        /\ hist.queries[n] = << Query("refresh", DefaultChannel), Query("refresh", FallbackChannel),
                                Query("install", FallbackChannel) >>
        /\ hist.resolved[n] = StoreRev
        /\ Key(n) \in requiredSnaps
        /\ pc = "resolve"

(***************************************************************************)
(* C23                                                                      *)
(***************************************************************************)
\* What the store holds for a snap is no valid Info.
InvalidInfo(n) == store[n].found /\ (store[n].id = "" \/ store[n].rev <= 0)

ValidEntry(e) == e.id # "" /\ e.rev > 0

\* C23: a step that resolves a snap records in currentSnaps and emits to the
\* work list only an Info with a snap-id and a revision above 0; when the
\* store's Info of the snap has no snap-id or no revision above 0, the step
\* ends the run, with the invalid-info error if the store has answered, and
\* records nothing.
C23_InvalidInfoIsFatal ==
    [][\A n \in Names :
         Resolving(n) =>
            /\ ~ResolveFailed =>
                  /\ ValidEntry(currentSnaps'[Len(currentSnaps')])
                  /\ \A i \in 1..Len(workList') : ValidEntry(workList'[i])
            /\ InvalidInfo(n) =>
                  /\ ResolveFailed
                  /\ hist'.error \in {ErrInvalid, ErrUnavailable}
                  /\ currentSnaps' = currentSnaps
                  /\ workList' = workList]_vars

\* The store's revision of hello is negative, and hello is in currentSnaps and
\* in the work list with it.
C23_NegativeRevisionRecorded ==
    /\ store["hello"].rev < 0
    /\ \E i \in 1..Len(currentSnaps) : currentSnaps[i].name = "hello" /\ currentSnaps[i].rev < 0
    /\ \E i \in 1..Len(workList) : workList[i].name = "hello" /\ workList[i].rev < 0

(***************************************************************************)
(* C24                                                                      *)
(***************************************************************************)
\* The blob of the greatest revision of a snap.
LatestBlob(n) == Max({ f.rev : f \in { g \in snapFiles : g.name = n /\ g.rev > 0 } })

\* The snap has a blob, and the assertion file next to the blob of the greatest
\* revision is there without a snap-id header or without a snap-revision header.
IncompleteAssert(n) ==
    /\ findPreviousSnap(n).found
    /\ assertExists(n, LatestBlob(n))
    /\ parseSnapInfo(n, LatestBlob(n)).id = "" \/ parseSnapInfo(n, LatestBlob(n)).rev = 0

\* C24: a snap whose assertion file next to its greatest blob lacks the snap-id
\* or the snap-revision header is resolved with install calls only, the first
\* on the channel asked for.
C24_IncompleteAssertMeansInstall ==
    [][\A n \in Names :
         (Resolving(n) /\ IncompleteAssert(n)) =>
            \A k \in 1..Len(NewQueries(n)) : NewQueries(n)[k].op = "install"]_vars

\* A snap whose assertion file has a snap-id and no snap-revision header has
\* been resolved with a refresh.
C24_RefreshedWithoutRevisionHeader ==
    \E n \in Names :
        /\ \E a \in hist.start.asserts : a.name = n /\ a.rev > 0 /\ a.id # "" /\ a.srev = 0
        /\ Len(hist.queries[n]) > 0
        /\ hist.queries[n][1].op = "refresh"

(***************************************************************************)
(* C25                                                                      *)
(***************************************************************************)
\* The loop over the work list is at an item, about to try its delta number
\* dl.i, or past its deltas.
AtDelta == pc = "process" /\ workList # << >> /\ dl.phase = "blob" /\ dl.i <= Len(Item.deltas)
AtFull == pc = "process" /\ workList # << >> /\ dl.phase = "blob" /\ dl.i > Len(Item.deltas)
AtAssertions == pc = "process" /\ workList # << >> /\ dl.phase = "assert"

DeltaFileOf(item, k, ext) ==
    [name |-> item.name, from |-> item.deltas[k].from, to |-> item.deltas[k].to, ext |-> ext]

\* The blob of the item is in snaps/ after the step.
BlobThere == \E f \in snapFiles' : f.name = Item.name /\ f.rev = Item.rev

\* C25: the deltas of a work item are tried one by one in the order of the
\* list, starting with the first; a turn either yields the blob, and then the
\* assertions follow with no other download, or leaves snaps/ without a new
\* blob and passes to the next delta, never ending the run; past the last delta
\* the full download is made, which yields the blob or ends the run.
C25_DeltasInOrderThenFull ==
    [][/\ AtDelta =>
            /\ pc' = "process"
            /\ workList' = workList
            /\ \E ext \in {"delta", "delta.partial"} : DeltaFileOf(Item, dl.i, ext) \in junkFiles'
            /\ \/ dl' = [phase |-> "assert", i |-> dl.i] /\ BlobThere
               \/ dl' = [phase |-> "blob", i |-> dl.i + 1] /\ snapFiles' = snapFiles
       /\ AtFull =>
            /\ workList' = workList
            /\ \/ pc' = "process" /\ dl'.phase = "assert" /\ BlobThere
               \/ pc' = "failed" /\ hist'.failedAt = "download" /\ snapFiles' = snapFiles
       /\ AtAssertions =>
            /\ snapFiles' = snapFiles
            /\ junkFiles' = junkFiles
            /\ \/ pc' = "failed"
               \/ workList' = Tail(workList) /\ dl' = [phase |-> "blob", i |-> 1]
       /\ (pc = "resolve" /\ pc' = "process") => dl' = [phase |-> "blob", i |-> 1]]_vars

\* The first delta of an item did not yield the blob, the second did: the
\* assertions are next.
C25_SecondDeltaApplied ==
    /\ AtAssertions
    /\ dl.i = 2
    /\ \E f \in snapFiles : f.name = Item.name /\ f.rev = Item.rev
    /\ \E ext \in {"delta", "delta.partial"} : DeltaFileOf(Item, 1, ext) \in junkFiles
    /\ DeltaFileOf(Item, 2, "delta") \in junkFiles

(***************************************************************************)
(* C26                                                                      *)
(***************************************************************************)
\* C26: every call of the delta applier was made with the blob of the delta's
\* from-revision in snaps/; a turn whose delta starts from a revision without
\* a blob calls no applier, writes no blob and passes to the next delta.
C26_ApplierNeedsOldBlob ==
    /\ [](\A call \in hist.applier : call.present)
    /\ [][(AtDelta /\ ~snapExists(Item.name, Item.deltas[dl.i].from)) =>
              /\ hist'.applier = hist.applier
              /\ snapFiles' = snapFiles
              /\ dl' = [phase |-> "blob", i |-> dl.i + 1]]_vars

\* A delta from a revision without a blob has been downloaded and passed over,
\* and the applier has been called for a later delta.
C26_DeltaSkipped ==
    /\ pc = "process"
    /\ workList # << >>
    /\ dl.i = 2
    /\ DeltaFileOf(Item, 1, "delta") \in junkFiles
    /\ ~snapExists(Item.name, Item.deltas[1].from)
    /\ \A call \in hist.applier : ~(call.name = Item.name /\ call.from = Item.deltas[1].from)
    /\ \E call \in hist.applier : call.name = Item.name /\ call.from = Item.deltas[2].from

C27_FullDownloadAttempts ==
    /\ [](loop.fn = "downloadSnap" =>
            /\ loop.calls <= MaxAttempts
            /\ loop.result # "" => loop.calls >= 1
            /\ loop.result = "nil" => (loop.failed = loop.calls - 1 /\ loop.failed < MaxAttempts)
            /\ loop.result = "error" <=> loop.failed = MaxAttempts
            /\ loop.result = "" => loop.failed = loop.calls)
    /\ [][loop.fn = "downloadSnap" => loop.result = ""]_vars

\* The fifth attempt has succeeded after four failed ones.
C27_FifthAttemptSucceeds ==
    /\ loop.fn = "downloadSnap"
    /\ loop.result = "nil"
    /\ loop.calls = MaxAttempts
    /\ loop.failed = MaxAttempts - 1

(***************************************************************************)
(* C28                                                                      *)
(***************************************************************************)
RECURSIVE Pow2(_)
Pow2(n) == IF n = 0 THEN 1 ELSE 2 * Pow2(n - 1)

\* C28: downloadSnapDeltaWithRetries makes at most maxRetries attempts; it
\* returns nil at the first attempt that succeeds and an error only after
\* maxRetries failed attempts; after its k-th failed attempt, so before attempt
\* k + 1, it has slept 2^(k-1) seconds: 1, 2, 4, ...; once it has returned it
\* makes no attempt.
C28_DeltaRetriesWithBackoff ==
    /\ [](loop.fn = "downloadSnapDeltaWithRetries" =>
            /\ loop.calls <= loop.maxRetries
            /\ loop.result = "nil" => (loop.failed = loop.calls - 1 /\ loop.failed < loop.maxRetries)
            /\ loop.result = "error" => (loop.failed = loop.maxRetries /\ loop.calls = loop.maxRetries)
            /\ loop.result = "" => loop.failed = loop.calls
            /\ Len(loop.slept) = loop.failed
            /\ \A k \in 1..Len(loop.slept) : loop.slept[k] = Pow2(k - 1))
    /\ [][loop.fn = "downloadSnapDeltaWithRetries" => loop.result = ""]_vars

\* The fourth attempt of five has succeeded, after waits of 1, 2 and 4 seconds.
C28_FourthAttemptSucceeds ==
    /\ loop.fn = "downloadSnapDeltaWithRetries"
    /\ loop.maxRetries = MaxAttempts
    /\ loop.result = "nil"
    /\ loop.calls = 4
    /\ loop.slept = << 1, 2, 4 >>

(***************************************************************************)
(* C29                                                                      *)
(***************************************************************************)
FatalKinds == { "snap-declaration", "account-key", "account" }

\* C29: a kind is fetched when exactly the kinds before it in the order
\* snap-declaration, account-key, account, snap-revision have been fetched;
\* when the fetch of one of the first three fails, downloadAssertions returns
\* the error of that kind, having written nothing, and does nothing more;
\* nothing is written unless these three have come; a snap-revision that did not
\* come is no error, and the finished file then holds the other assertions.
C29_FetchOrderAndFailures ==
    /\ [](/\ assertErr # "" => (assertionsFile = << >> /\ wstep = 0)
          /\ \A kind \in FatalKinds :
                assertErr = FetchError(kind) =>
                    (DOMAIN assertions = Before(kind) /\ assertionsFile = << >>)
          /\ assertErr # FetchError("snap-revision")
          /\ (wstep > 0 \/ assertionsFile # << >>) =>
                \A kind \in FatalKinds : kind \in DOMAIN assertions /\ ~assertions[kind].nil
          /\ (wstep = 4 /\ assertions["snap-revision"].nil) =>
                (assertErr = "" /\ BlockKinds =
                    << "account-key" >>
                        \o (IF IsCanonical(assertions["account"]) THEN << >> ELSE << "account" >>)
                        \o << "snap-declaration" >>))
    /\ [][/\ assertErr = ""
          /\ \A kind \in AssertionKinds :
                (kind \in DOMAIN assertions' /\ kind \notin DOMAIN assertions) =>
                    (DOMAIN assertions = Before(kind) /\ DOMAIN assertions' = Before(kind) \cup {kind})]_vars

\* The snap-revision did not come, and the file holds the three other
\* assertions.
C29_WrittenWithoutRevision ==
    /\ wstep = 4
    /\ assertErr = ""
    /\ assertions["snap-revision"].nil
    /\ BlockKinds = << "account-key", "account", "snap-declaration" >>

(***************************************************************************)
(* C31                                                                      *)
(***************************************************************************)
\* The step is the manifest rewrite.
Rewriting == hist'.rewrites > hist.rewrites

HeldNames(cs) == { cs[i].name : i \in 1..Len(cs) }

\* C31: the manifest rewrite comes after the purge and writes one entry per
\* element of currentSnaps, in the order of currentSnaps, with the element's
\* name and the file <name>_<revision>.snap; no entry of the old manifest is in
\* the new one unless currentSnaps holds its name.
C31_ManifestIsCurrentSnaps ==
    [][Rewriting =>
        /\ hist.purged
        /\ currentSnaps' = currentSnaps
        /\ Len(manifest') = Len(currentSnaps)
        /\ \A i \in 1..Len(currentSnaps) :
              /\ manifest'[i].name = currentSnaps[i].name
              /\ manifest'[i].file = [name |-> currentSnaps[i].name, rev |-> currentSnaps[i].rev]
        /\ \A j \in 1..Len(manifest) :
              manifest[j].name \in ManifestNames' => manifest[j].name \in HeldNames(currentSnaps)]_vars

\* The manifest of the earlier run listed core, the purge of this run dropped
\* it from currentSnaps, and the rewritten manifest does not list it.
C31_OldEntryDiscarded ==
    /\ hist.rewrites = 1
    /\ pc = "ensure"
    /\ \E j \in 1..Len(hist.start.manifest) : hist.start.manifest[j].name = "core"
    /\ "core" \notin HeldNames(currentSnaps)
    /\ "core" \notin ManifestNames
    /\ ManifestNames # {}

(***************************************************************************)
(* C32                                                                      *)
(***************************************************************************)
\* The channel of the last store call made for a snap in this run: the one on
\* which it was resolved.
ResolvedChannel(n) == hist.queries[n][Len(hist.queries[n])].channel

\* C32: once the manifest is rewritten, the entry of every snap resolved in
\* this run carries the channel on which it was resolved, without its leading
\* latest/.
C32_EntryCarriesResolvedChannel ==
    (hist.rewrites > 0) =>
        \A i \in 1..Len(manifest) :
            hist.resolved[manifest[i].name] # 0 =>
                manifest[i].channel = normalizeChannel(ResolvedChannel(manifest[i].name))

\* hello was resolved on the default channel and its entry in the rewritten
\* manifest has an empty channel.
C32_ChannelLost ==
    /\ hist.rewrites > 0
    /\ hist.resolved["hello"] # 0
    /\ ResolvedChannel("hello") = DefaultChannel
    /\ \E i \in 1..Len(manifest) : manifest[i].name = "hello" /\ manifest[i].channel = ""

(***************************************************************************)
(* C33                                                                      *)
(***************************************************************************)
\* The step is the validator's and its verdict is a failure.
ValidationFails == pc = "validate" /\ pc' # "cleanup"

\* The step is the final purge pass.
FinalPurge == pc = "cleanup" /\ pc' = "done"

\* C33: a failed validation ends the run and changes nothing under the seed
\* directory; a run that has ended does nothing more, so what was there when
\* the validator was invoked stays; the final purge pass is made only in a run
\* whose validation succeeded.
C33_FailedValidationLeavesSeed ==
    [][/\ ValidationFails => (pc' = "failed" /\ hist'.failedAt = "validate" /\ Snapshot' = Snapshot)
       /\ pc # "failed"
       /\ (hist.failedAt = "validate" /\ run' = run) => Snapshot' = Snapshot
       /\ FinalPurge => hist.validated]_vars

\* The validation has failed and the stray file found at the start is still in
\* snaps/.
C33_StrayFileLeft ==
    /\ pc = "failed"
    /\ hist.failedAt = "validate"
    /\ ~hist.validated
    /\ junkFiles # {}
    /\ junkFiles = hist.start.junk

(***************************************************************************)
(* C36                                                                      *)
(***************************************************************************)
\* The step resolves n with success.
Resolved(n) == hist'.entered[n] > hist.entered[n]

\* The revision of the last entry of n in cs.
RecordedRev(cs, n) ==
    cs[Max({ i \in 1..Len(cs) : cs[i].name = n })].rev

\* C36: when the resolver resolves a snap and emits no work item for it, the
\* revision it records in currentSnaps is that of the snap's blob on disk.
C36_RecordedIsOnDisk ==
    [][\A n \in Names :
          (Resolved(n) /\ n \notin hist'.emitted) =>
              /\ findPreviousSnap(n).found
              /\ RecordedRev(currentSnaps', n) = findPreviousSnap(n).snap.rev]_vars

\* hello_3.snap is on disk, the store has answered with revision 2, no work
\* item was emitted, and currentSnaps says hello is at revision 2, of which
\* there is no blob.
C36_LowerRevisionRecorded ==
    /\ pc = "resolve"
    /\ hist.resolved["hello"] = StoreRev
    /\ "hello" \notin hist.emitted
    /\ snapExists("hello", StoreRev + 1)
    /\ ~snapExists("hello", StoreRev)
    /\ \E i \in 1..Len(currentSnaps) : currentSnaps[i].name = "hello" /\ currentSnaps[i].rev = StoreRev

(***************************************************************************)
(* C37                                                                      *)
(***************************************************************************)
\* The step is cleanUpCurrentSnaps.
Purging == pc = "process" /\ pc' = "rewrite"

\* The entries of cs, in order, whose name is in S.
EntriesOf(cs, S) == FilterSeq(cs, S)

\* C37: when the purge is made, every snap the resolver visited in this run is
\* a key of requiredSnaps under its name; the purge keeps the entries these
\* snaps have in currentSnaps and the files they have in snaps/ and assertions/.
C37_VisitedSnapsSurvivePurge ==
    [][Purging =>
        /\ \A n \in processedSnaps : Key(n) \in requiredSnaps
        /\ EntriesOf(currentSnaps', processedSnaps) = EntriesOf(currentSnaps, processedSnaps)
        /\ { f \in snapFiles' : f.name \in processedSnaps } = { f \in snapFiles : f.name \in processedSnaps }
        /\ { a \in assertFiles' : a.name \in processedSnaps } = { a \in assertFiles : a.name \in processedSnaps }]_vars

\* The purge has been made in a run given core=latest/edge, a key that is not
\* core's name: core was resolved without a work item, hello with one, and both
\* are keys of requiredSnaps under their names.
C37_RootWithChannelKept ==
    /\ pc = "rewrite"
    /\ << "core", "=", EdgeChannel >> \in args
    /\ {"core", "hello"} \subseteq processedSnaps
    /\ "hello" \in hist.emitted
    /\ "core" \notin hist.emitted
    /\ Key("core") \in requiredSnaps
    /\ Key("hello") \in requiredSnaps
    /\ \E i \in 1..Len(currentSnaps) : currentSnaps[i].name = "core"

(***************************************************************************)
(* C38                                                                      *)
(***************************************************************************)
\* The arguments given as name=channel.
RootsWithChannel == { e \in args : Len(e) = 3 }

\* C38: whatever the order in which the roots and the prerequisites are
\* visited, a snap given as name=channel is queried on that channel first.
C38_RootQueriedOnItsChannel ==
    \A e \in RootsWithChannel :
        hist.queries[EntryName(e)] # << >> =>
            hist.queries[EntryName(e)][1].channel = EntryChannel(e)

\* The arguments are hello and core=latest/edge; hello was visited first and
\* its base core was queried on hello's channel, then on the fallback, and
\* never on latest/edge.
C38_RootResolvedOnParentsChannel ==
    /\ << "core", "=", EdgeChannel >> \in args
    /\ << "hello" >> \in args
    /\ pc = "process"
    /\ hist.queries["core"] =
          << Query("install", DefaultChannel), Query("install", FallbackChannel) >>

(***************************************************************************)
(* C34                                                                      *)
(***************************************************************************)
\* The text after the last underscore of a file name.
AfterLastUnderscore(fileName) == SubSeq(fileName, LastIndex(fileName, "_") + 2, Len(fileName))

\* C34: extractRevisionFromFile returns the text after the last underscore
\* without its suffix for a name with an underscore that ends in .snap or in
\* .assert, and the empty text for every other name.
C34_RevisionOrEmpty ==
    (fcall.fn = "extractRevisionFromFile" /\ fcall.returned) =>
        fcall.revision =
            IF LastIndex(fcall.fileName, "_") # -1 /\ HasSuffix(fcall.fileName, DotSnap)
            THEN TrimSuffix(AfterLastUnderscore(fcall.fileName), DotSnap)
            ELSE IF LastIndex(fcall.fileName, "_") # -1 /\ HasSuffix(fcall.fileName, DotAssert)
            THEN TrimSuffix(AfterLastUnderscore(fcall.fileName), DotAssert)
            ELSE << >>

\* For hello_1_to_2.delta the function has returned 2.delta.
C34_DeltaNameGivesRevision ==
    /\ fcall.fn = "extractRevisionFromFile"
    /\ fcall.returned
    /\ fcall.fileName = DeltaFileName(Hello, 1, 2)
    /\ fcall.revision = << "2" >> \o DotDelta

(***************************************************************************)
(* C35                                                                      *)
(***************************************************************************)
\* The text is one digit at least and digits only.
AllDigits(t) == t # << >> /\ \A i \in 1..Len(t) : IsDigit(t[i])

\* The files of snaps/ named <snapName>_<digits>.snap, and the revision each
\* one names.
BlobsOf(snapName) ==
    { f \in dir.snaps :
        /\ HasPrefix(f, snapName \o << "_" >>)
        /\ HasSuffix(f, DotSnap)
        /\ Len(f) > Len(snapName) + 1 + Len(DotSnap)
        /\ AllDigits(SubSeq(f, Len(snapName) + 2, Len(f) - Len(DotSnap))) }

RevisionNamed(snapName, f) == DecimalValue(SubSeq(f, Len(snapName) + 2, Len(f) - Len(DotSnap)))

\* C35: findPreviousSnap returns nothing when snaps/ has no file named
\* <name>_<digits>.snap; otherwise it returns one of these files, of the
\* greatest revision among them, with that revision and the snap-id of the
\* assertion file of the same name.
C35_GreatestBlobOfTheName ==
    (fcall.fn = "findPreviousSnap" /\ fcall.returned) =>
        IF BlobsOf(fcall.snapName) = {} THEN ~fcall.found
        ELSE /\ fcall.found
             /\ fcall.latestSnapPath \in BlobsOf(fcall.snapName)
             /\ \A f \in BlobsOf(fcall.snapName) :
                   RevisionNamed(fcall.snapName, f) <= RevisionNamed(fcall.snapName, fcall.latestSnapPath)
             /\ fcall.currentSnap.rev = RevisionNamed(fcall.snapName, fcall.latestSnapPath)
             /\ fcall.currentSnap.id =
                   parseSnapInfoByName(TrimSuffix(fcall.latestSnapPath, DotSnap) \o DotAssert,
                                       fcall.snapName).id

\* Asked for hello with hello_1.snap and hello_dev_2.snap in snaps/, the
\* function has returned hello_dev_2.snap, revision 2, with the snap-id found
\* in hello_dev_2.assert.
C35_OtherInstanceTaken ==
    /\ fcall.fn = "findPreviousSnap"
    /\ fcall.returned
    /\ fcall.snapName = Hello
    /\ dir.snaps = { SnapFileName(Hello, 1), SnapFileName(HelloDev, 2) }
    /\ dir.assertions = { AssertFileNameOf(HelloDev, Itoa(2)) }
    /\ fcall.found
    /\ fcall.latestSnapPath = SnapFileName(HelloDev, 2)
    /\ fcall.currentSnap = [name |-> Hello, id |-> SnapIdIn(AssertFileNameOf(HelloDev, Itoa(2))), rev |-> 2]

(***************************************************************************)
(* C39                                                                      *)
(***************************************************************************)
\* The step is cleanUpFiles, on the directory with its file names spelled out.
CleaningUp == fcall.fn = "cleanUpFiles" /\ fcall.step = "cleanup" /\ fcall'.step = "done"

\* C39: cleanUpFiles creates no file; what it deletes in snaps/ ends in
\* .partial, .delta or .snap and what it deletes in assertions/ ends in
\* .assert; the file a manifest entry names and the assertion file of the same
\* name stay; model, account-key and account stay; the manifest is unchanged.
C39_FinalPurgeFrame ==
    [][CleaningUp =>
        /\ dir'.snaps \subseteq dir.snaps
        /\ dir'.assertions \subseteq dir.assertions
        /\ \A f \in dir.snaps \ dir'.snaps :
              HasSuffix(f, DotPartial) \/ HasSuffix(f, DotDelta) \/ HasSuffix(f, DotSnap)
        /\ \A f \in dir.assertions \ dir'.assertions : HasSuffix(f, DotAssert)
        /\ \A i \in 1..Len(dir.seed) :
              /\ dir.seed[i].file \in dir.snaps => dir.seed[i].file \in dir'.snaps
              /\ LET sibling == TrimSuffix(dir.seed[i].file, DotSnap) \o DotAssert
                 IN  sibling \in dir.assertions => sibling \in dir'.assertions
        /\ TopLevelFiles \subseteq dir'.assertions
        /\ dir'.seed = dir.seed]_vars

\* The manifest lists hello_dev_12.snap; the pass has kept that blob and its
\* assertion file and the three top-level assertions, and has removed
\* hello_2.snap, which the manifest does not list.
C39_ListedKeptUnlistedGone ==
    /\ fcall.fn = "cleanUpFiles"
    /\ fcall.step = "done"
    /\ fcall.currentSnaps = << [name |-> HelloDev, rev |-> 12] >>
    /\ fcall.before.snaps = { SnapFileName(HelloDev, 12), SnapFileName(Hello, 2) }
    /\ dir.snaps = { SnapFileName(HelloDev, 12) }
    /\ dir.assertions = TopLevelFiles \cup { AssertFileNameOf(HelloDev, Itoa(12)) }
    /\ fcall.before.assertions = dir.assertions

====
